---- MODULE Spec2Model ----
(***************************************************************************)
(* A model of the zlog v2 slog.Handler (quay/zlog): the record pipeline of *)
(* handler.go, the JSON, journal and prose formatter tables, the derived   *)
(* handlers (WithAttrs / WithGroup) and the mutex-guarded writer.          *)
(*                                                                         *)
(* A byte is a string of length one, a buffer is a sequence of bytes.      *)
(***************************************************************************)
EXTENDS Integers, Sequences, FiniteSets, TLC

VARIABLES
    hs,       \* the handlers that exist, in order of creation (hs[1] is the base)
    origin,   \* history: how each handler was made (parent, operation, argument)
    arrays,   \* the backing arrays of the handlers' groups slices
    opts,     \* the *Options shared by the base handler and all derived ones
    last,     \* the last completed call: its inputs and everything it returned / wrote
    pc,       \* per goroutine: position inside a concurrent Handle call
    gbuf,     \* per goroutine: the handler called and the assembled record buffer
    mu,       \* per syncWriter, its Mutex: 0 when free, else the goroutine holding it
    inner,    \* goroutines currently inside the Write of the underlying io.Writer
    wlog,     \* the chunks the underlying io.Writer has taken, in order
    env,      \* the process environment: variables, files, the journal socket's limit
    res       \* what the last call of NewHandler, journalWriter.Write or a helper left

vars == <<hs, origin, arrays, opts, last, pc, gbuf, mu, inner, wlog, env, res>>

----------------------------------------------------------------------------
(* Bounds of the model.                                                    *)

MaxHandlers == 3
MaxWrites == 2
\* the datagram limit of the journal socket when the process starts; it stands for
\* maxMsgSize = 4096 with records scaled down alike
MaxMsgDefault == 24
\* levels run from -MaxLevel/2 to MaxLevel; SyslogEmergency is 20
MaxLevel == 24
\* longest message, key and string value of the framing records
MaxText == 2
\* most members of a baggage and most labels of a context
MaxMembers == 2
\* most key/value pairs given to ContextWithValues
MaxPairs == 2
\* longest string of bytes given to writeJSONString
MaxBytes == 4
\* handlers in a chain of derived handlers, the base handler included
MaxNest == 6
\* the capacity of a buffer bufPool.New makes; it stands for 1024, with the records
\* scaled down alike
PoolNewCap == 2
\* buffer objects the process allocates
MaxBufs == 3
\* scratch states the state pool keeps; sync.Pool is free to drop what is put
MaxPooled == 1

----------------------------------------------------------------------------
(* Bytes and small helpers.                                                *)

LevelDebug == 0 - 4
LevelInfo == 0
LevelWarn == 4
LevelError == 8

TailByte(b) == b[Len(b)]

ReplaceTail(b, c) == [b EXCEPT ![Len(b)] = c]

Unwrite(b) == SubSeq(b, 1, Len(b) - 1)

\* bytes.LastIndexByte: 0-based index of the last c in b, -1 when there is none
LastIndexByte(b, c) ==
    LET S == {i \in 1..Len(b) : b[i] = c}
    IN  IF S = {} THEN 0 - 1 ELSE (CHOOSE i \in S : \A j \in S : j <= i) - 1

\* the Go slice expression b[:i]
SliceTo(b, i) == SubSeq(b, 1, i)

IndexByte(b, c) ==
    LET S == {i \in 1..Len(b) : b[i] = c}
    IN  IF S = {} THEN 0 - 1 ELSE (CHOOSE i \in S : \A j \in S : i <= j) - 1

DigitChars == <<"0", "1", "2", "3", "4", "5", "6", "7", "8", "9">>

RECURSIVE strconvAppendUint(_)
strconvAppendUint(n) ==
    IF n < 10 THEN <<DigitChars[n + 1]>>
    ELSE strconvAppendUint(n \div 10) \o <<DigitChars[(n % 10) + 1]>>

strconvAppendInt(n) ==
    IF n < 0 THEN <<"-">> \o strconvAppendUint(0 - n) ELSE strconvAppendUint(n)

strconvAppendBool(v) ==
    IF v THEN <<"t", "r", "u", "e">> ELSE <<"f", "a", "l", "s", "e">>

\* slog.Level.String: the name of the level band plus a signed offset
LevelName(base, val) ==
    IF val = 0 THEN base
    ELSE base \o (IF val > 0 THEN <<"+">> ELSE <<>>) \o strconvAppendInt(val)

LevelString(l) ==
    IF l < LevelInfo THEN LevelName(<<"D", "E", "B", "U", "G">>, l - LevelDebug)
    ELSE IF l < LevelWarn THEN LevelName(<<"I", "N", "F", "O">>, l - LevelInfo)
    ELSE IF l < LevelError THEN LevelName(<<"W", "A", "R", "N">>, l - LevelWarn)
    ELSE LevelName(<<"E", "R", "R", "O", "R">>, l - LevelError)

RECURSIVE Repeat(_, _)
Repeat(c, n) == IF n <= 0 THEN <<>> ELSE <<c>> \o Repeat(c, n - 1)

\* instants are abstract ticks: RFC3339 text is "T" and the tick's digits
FormatTime(t) == <<"T">> \o strconvAppendUint(t)

\* time.Time.UnixMicro rendered in decimal
UnixMicro(t) == strconvAppendUint(t)

\* the control bytes (below 0x20) of the model's alphabet and their two hex digits
ControlBytes == {"x00", "x1b", "x1d", "x1e", "x1f"}

ControlHex(c) ==
    CASE c = "x00" -> <<"0", "0">>
      [] c = "x1b" -> <<"1", "b">>
      [] c = "x1d" -> <<"1", "d">>
      [] c = "x1e" -> <<"1", "e">>
      [] c = "x1f" -> <<"1", "f">>

\* what writeJSONString writes for one byte: a backslash and a letter, \u00XX for
\* the other bytes below 0x20, the byte itself when safeSet holds
JSONShortEscape(c) ==
    CASE c = "\"" -> <<"\\", "\"">>
      [] c = "\\" -> <<"\\", "\\">>
      [] c = "\n" -> <<"\\", "n">>
      [] c = "\r" -> <<"\\", "r">>
      [] c = "\t" -> <<"\\", "t">>
      [] c \in ControlBytes -> <<"\\", "u", "0", "0">> \o ControlHex(c)
      [] OTHER -> <<c>>

RECURSIVE writeJSONString(_)
writeJSONString(s) ==
    IF s = <<>> THEN <<>>
    ELSE JSONShortEscape(Head(s)) \o writeJSONString(SubSeq(s, 2, Len(s)))

HexChars == <<"0", "1", "2", "3", "4", "5", "6", "7", "8", "9", "a", "b", "c", "d", "e", "f">>

\* a byte that is not printable ASCII is written xHH
RawByte(n) == "x" \o HexChars[(n \div 16) + 1] \o HexChars[(n % 16) + 1]

RECURSIVE LittleEndianBytes(_, _)
LittleEndianBytes(n, w) ==
    IF w = 0 THEN <<>> ELSE <<RawByte(n % 256)>> \o LittleEndianBytes(n \div 256, w - 1)

\* binary.LittleEndian.AppendUint64
AppendUint64LE(b, n) == b \o LittleEndianBytes(n, 8)

\* strconv.AppendQuote: the short escapes, \xHH for the other control bytes
QuoteEscape(c) ==
    CASE c = "\"" -> <<"\\", "\"">>
      [] c = "\\" -> <<"\\", "\\">>
      [] c = "\n" -> <<"\\", "n">>
      [] c = "\r" -> <<"\\", "r">>
      [] c = "\t" -> <<"\\", "t">>
      [] c \in ControlBytes -> <<"\\", "x">> \o ControlHex(c)
      [] OTHER -> <<c>>

RECURSIVE QuoteBody(_)
QuoteBody(s) ==
    IF s = <<>> THEN <<>> ELSE QuoteEscape(Head(s)) \o QuoteBody(Tail(s))

strconvQuote(s) == <<"\"">> \o QuoteBody(s) \o <<"\"">>

----------------------------------------------------------------------------
(* The scratch of one encoding run: the buffer b, the formatter state      *)
(* (stateJSON.groups / wroteAttr, stateJournal.groups / prefix) and the    *)
(* list tr of the formatter hooks called so far, each with the state and   *)
(* the buffer length it left.                                              *)

Ev(c, hook, arg, ret) ==
    [c EXCEPT !.tr = Append(@, [hook |-> hook, arg |-> arg, ret |-> ret,
                                groups |-> c.groups, prefix |-> c.prefix,
                                at |-> Len(c.b)])]

Write(c, bytes) == [c EXCEPT !.b = @ \o bytes]

\* stateJournal.pushGroup
pushGroup(c, g) ==
    [c EXCEPT !.groups = Append(@, g),
              !.prefix = (IF Len(@) > 0 THEN Append(@, ".") ELSE @) \o g]

RECURSIVE pushGroups(_, _)
pushGroups(c, gs) ==
    IF gs = <<>> THEN c ELSE pushGroups(pushGroup(c, Head(gs)), SubSeq(gs, 2, Len(gs)))

\* statePool.Get: stateJSON.Reset / stateJournal.Reset on the pooled state
Reset(f, gs) ==
    LET c0 == [b |-> <<>>, jgroups |-> 0, wroteAttr |-> FALSE, groups |-> <<>>,
               prefix |-> <<>>, tr |-> <<>>, panicked |-> FALSE]
    IN  IF f = "json" THEN [c0 EXCEPT !.jgroups = Len(gs)] ELSE pushGroups(c0, gs)

emitUnitSep(c) == Write(c, <<"x1f", " ">>)

emitGroupSep(c) == Write(c, <<"x1d", " ">>)

\* journalString: assumes the tail byte of the buffer is '='
journalString(c, v) ==
    LET c1 == IF IndexByte(v, "\n") # 0 - 1
              THEN [c EXCEPT !.b = AppendUint64LE(ReplaceTail(@, "\n"), Len(v))]
              ELSE c
    IN  Write(c1, v \o <<"\n">>)

----------------------------------------------------------------------------
(* The ansiPrinter of the prose handler. The format "prose" is the prose   *)
(* table with a nil printer, "ansi" the prose table with the printer built *)
(* from DefaultProseColors (ZLOG_COLORS unset).                            *)

IsProse(f) == f \in {"prose", "ansi"}

\* strings.Split(DefaultProseColors, ":")
DefaultProseColors ==
    << <<"3", "1">>, <<"3", "3">>, <<"3", "2">>, <<"3">>, <<"9", "6">>, <<"9", "3">>,
       <<>>, <<"3", "6">>, <<>>, <<"1", ";", "3", "2">>, <<"1", ";", "3", "1">>,
       <<"1", ";", "3", "3">>, <<"3", "2">>, <<"9", "5">>, <<"3", "3">>, <<"4">>,
       <<"3", "4">>, <<"3", "5">>, <<"2", "1">>, <<"9", "1">> >>

printErrorLevel == 0
printWarnLevel == 1
printInfoLevel == 2
printDebugLevel == 3
printSource == 4
printTimestamp == 5
printMessage == 6
printKey == 7
printString == 8
printTrue == 9
printFalse == 10
printNumber == 11
printTime == 12
printDuration == 13
printErrorVal == 14
printTextUnmarshaler == 15

\* emitEscape before body and the reset it returns after body
emitEscape(f, i, body) ==
    IF f # "ansi" \/ DefaultProseColors[i + 1] = <<>> THEN body
    ELSE <<"x1b", "[">> \o DefaultProseColors[i + 1] \o <<"m">> \o body
         \o <<"x1b", "[", "m">>

\* the index the WriteLevel hook of the prose table picks
printLevel(l) ==
    CASE l >= LevelError -> printErrorLevel
      [] l >= LevelWarn -> printWarnLevel
      [] l >= LevelInfo -> printInfoLevel
      [] OTHER -> printDebugLevel

\* the index of an Append hook for a scalar
printScalar(hook, text) ==
    CASE hook = "AppendBool" ->
              IF text = <<"t", "r", "u", "e">> THEN printTrue ELSE printFalse
      [] hook = "AppendTime" -> printTime
      [] hook = "AppendDuration" -> printDuration
      [] OTHER -> printNumber

----------------------------------------------------------------------------
(* The formatter hooks; f selects the table: "json", "journal" or "prose". *)

Start(f, c) ==
    Ev(IF f = "json" THEN Write(c, <<"{">>) ELSE c, "Start", <<>>, "nil")

RECURSIVE jsonElide(_, _)
jsonElide(b, g) ==
    IF Len(b) > 0 /\ TailByte(b) = "{"
    THEN LET i == LastIndexByte(b, ",")
         IN  jsonElide(SliceTo(b, IF i = 0 - 1 THEN 0 ELSE i), g - 1)
    ELSE [b |-> b, jgroups |-> g]

jsonEnd(c) ==
    LET e == IF ~c.wroteAttr THEN jsonElide(c.b, c.jgroups)
             ELSE [b |-> c.b, jgroups |-> c.jgroups]
    IN  IF e.b = <<>> THEN [c EXCEPT !.b = e.b, !.jgroups = e.jgroups, !.panicked = TRUE]
        ELSE LET b1 == IF TailByte(e.b) = "," THEN ReplaceTail(e.b, "}")
                       ELSE Append(e.b, "}")
             IN  [c EXCEPT !.b = b1 \o Repeat("}", e.jgroups) \o <<"\n">>,
                           !.jgroups = e.jgroups]

proseEnd(c) ==
    IF c.b = <<>> THEN [c EXCEPT !.panicked = TRUE]
    ELSE [c EXCEPT !.b = Unwrite(@) \o <<"x1e", "\n">>]

End(f, c) ==
    Ev(CASE f = "json" -> jsonEnd(c)
         [] IsProse(f) -> proseEnd(c)
         [] OTHER -> c,
       "End", <<>>, "nil")

JSONField(key, text) ==
    <<"\"">> \o writeJSONString(key) \o <<"\"", ":", "\"">> \o text \o <<"\"", ",">>

\* levelToPriority; the zero byte is what the switch leaves when no case matches
levelToPriority(l) ==
    CASE l <= LevelDebug -> "7"
      [] l <= LevelInfo -> "6"
      [] l <= LevelInfo + 2 -> "5"
      [] l <= LevelWarn -> "4"
      [] l <= LevelError -> "3"
      [] l <= LevelError + 4 -> "2"
      [] l <= LevelError + 8 -> "1"
      [] l <= LevelError + 12 -> "0"
      [] OTHER -> "x00"

proseWriteLevel(f, c, l) ==
    LET v == LevelString(l)
        ct == 5 - Len(v)
        c1 == Write(c, emitEscape(f, printLevel(l), v))
    IN  IF ct < 0 THEN [c1 EXCEPT !.panicked = TRUE]
        ELSE emitUnitSep(Write(c1, Repeat(" ", ct)))

WriteLevel(f, c, l) ==
    Ev(CASE f = "json" -> Write(c, JSONField(<<"l", "e", "v", "e", "l">>, LevelString(l)))
         [] f = "journal" ->
              Write(c, <<"P", "R", "I", "O", "R", "I", "T", "Y", "=">>
                       \o <<levelToPriority(l), "\n">>)
         [] OTHER -> proseWriteLevel(f, c, l),
       "WriteLevel", <<>>, "nil")

\* the frame of a non-zero PC: function fn in file F.go at line 7
FrameFunction == <<"f", "n">>
FrameFile == <<"F">>
FrameLine == 7

WriteSource(f, c) ==
    Ev(CASE f = "json" ->
              Write(c, JSONField(<<"s", "o", "u", "r", "c", "e">>,
                                 writeJSONString(FrameFunction)))
         [] f = "journal" ->
              LET c1 == journalString(Write(c, <<"C", "O", "D", "E", "_", "F", "I", "L",
                                                 "E", "=">>), FrameFile)
                  c2 == Write(c1, <<"C", "O", "D", "E", "_", "L", "I", "N", "E", "=">>
                                  \o strconvAppendInt(FrameLine) \o <<"\n">>)
              IN  journalString(Write(c2, <<"C", "O", "D", "E", "_", "F", "U", "N", "C",
                                            "=">>), FrameFunction)
         [] OTHER -> emitUnitSep(Write(c, emitEscape(f, printSource, FrameFunction))),
       "WriteSource", <<>>, "nil")

WriteTime(f, c, t) ==
    Ev(CASE f = "json" -> Write(c, JSONField(<<"t", "i", "m", "e">>, FormatTime(t)))
         [] f = "journal" ->
              Write(c, <<"T", "I", "M", "E", "S", "T", "A", "M", "P", "=">>
                       \o UnixMicro(t) \o <<"\n">>)
         [] OTHER -> emitUnitSep(Write(c, emitEscape(f, printTimestamp, FormatTime(t)))),
       "WriteTime", <<>>, "nil")

WriteMessage(f, c, m) ==
    Ev(CASE f = "json" -> Write(c, JSONField(<<"m", "s", "g">>, writeJSONString(m)))
         [] f = "journal" ->
              journalString(Write(c, <<"M", "E", "S", "S", "A", "G", "E", "=">>), m)
         [] OTHER -> emitGroupSep(Write(c, emitEscape(f, printMessage, m))),
       "WriteMessage", <<>>, "nil")

AppendKey(f, c, k) ==
    Ev(IF f = "json"
       THEN [c EXCEPT !.wroteAttr = TRUE,
                      !.b = @ \o <<"\"">> \o writeJSONString(k) \o <<"\"", ":">>]
       ELSE IF f = "journal"
       THEN Write(c, (IF Len(c.prefix) # 0 THEN c.prefix \o <<".">> ELSE <<>>)
                     \o k \o <<"=">>)
       ELSE Write(c, emitEscape(f, printKey,
                                (IF Len(c.prefix) # 0 THEN c.prefix \o <<".">> ELSE <<>>)
                                \o k)
                     \o <<"=">>),
       "AppendKey", k, "nil")

AppendString(f, c, v) ==
    Ev(CASE f = "json" -> Write(c, <<"\"">> \o writeJSONString(v) \o <<"\"", ",">>)
         [] f = "journal" -> journalString(c, v)
         [] OTHER -> emitUnitSep(Write(c, emitEscape(f, printString, strconvQuote(v)))),
       "AppendString", v, "nil")

\* AppendBool, AppendInt64, AppendUint64, AppendFloat64, AppendDuration, AppendTime:
\* the value's text, then the format's field terminator
AppendScalar(f, c, hook, text) ==
    Ev(CASE f = "json" ->
              IF hook \in {"AppendTime", "AppendDuration"}
              THEN Write(c, <<"\"">> \o text \o <<"\"", ",">>)
              ELSE Write(c, text \o <<",">>)
         [] f = "journal" -> Write(c, text \o <<"\n">>)
         [] OTHER -> emitUnitSep(Write(c, emitEscape(f, printScalar(hook, text), text))),
       hook, text, "nil")

\* formatterJournal.AppendAny. v.impl names the first case of the switch the
\* dynamic type falls in: "error" (an error that is no TextMarshaler), "marshaler"
\* (encoding.TextMarshaler), "binary" (encoding.BinaryMarshaler), "stringer",
\* "gostringer", "bytes" ([]byte) or "other" (the default case); v.s is the text
\* the method returns, the slice itself, or what fmt.Fprintln prints before its
\* newline; a marshaler fails when ~v.ok.
journalAppendAny(c, v) ==
    CASE v.impl \in {"marshaler", "binary"} /\ ~v.ok -> c
      [] v.impl \in {"error", "marshaler", "stringer", "gostringer"} ->
           journalString(c, v.s)
      [] v.impl \in {"binary", "bytes"} ->
           Write([c EXCEPT !.b = AppendUint64LE(ReplaceTail(@, "\n"), Len(v.s))],
                 v.s \o <<"\n">>)
      [] OTHER ->
           \* i := len(*b); b.Write(make([]byte, 8)); n, _ := fmt.Fprintln(b, v);
           \* n--; PutUint64((*b)[i:i+8], n)
           Write(c, LittleEndianBytes((Len(v.s) + 1) - 1, 8) \o v.s \o <<"\n">>)

\* AppendAny. v.impl is what the dynamic type implements: "marshaler" (json.Marshaler
\* and encoding.TextMarshaler, failing when ~v.ok) or "error".
AppendAny(f, c, v) ==
    LET fails == ~v.ok /\ (v.impl = "marshaler" \/ (f = "journal" /\ v.impl = "binary"))
        c1 == CASE f = "json" ->
                     IF v.impl = "error"
                     THEN Write(c, <<"\"">> \o writeJSONString(v.s) \o <<"\"", ",">>)
                     ELSE IF fails THEN c
                     ELSE Write(c, v.s \o <<",">>)
                [] f = "journal" -> journalAppendAny(c, v)
                [] OTHER ->
                     emitUnitSep(IF fails THEN c
                                 ELSE Write(c, emitEscape(f,
                                          IF v.impl = "error" THEN printErrorVal
                                          ELSE printTextUnmarshaler, v.s)))
    IN  Ev(c1, "AppendAny", v.s, IF fails THEN "EMarshal" ELSE "nil")

PushGroup(f, c, g) ==
    Ev(IF f = "json"
       THEN [c EXCEPT !.jgroups = @ + 1,
                      !.b = @ \o <<"\"">> \o writeJSONString(g) \o <<"\"", ":", "{">>]
       ELSE pushGroup(c, g),
       "PushGroup", g, "nil")

\* formatterJournal.PopGroup and the identical hook of the prose table
journalPopGroup(c) ==
    LET i == LastIndexByte(c.prefix, ".") - 1
    IN  [c EXCEPT !.groups = SliceTo(@, Len(@) - 1),
                  !.prefix = SliceTo(@, IF i < 0 THEN 0 ELSE i)]

jsonPopGroup(c) ==
    [c EXCEPT !.jgroups = @ - 1,
              !.b = (IF TailByte(@) = "," THEN ReplaceTail(@, "}") ELSE Append(@, "}"))
                    \o <<",">>]

PopGroup(f, c) ==
    Ev(IF f = "json" THEN jsonPopGroup(c) ELSE journalPopGroup(c), "PopGroup", <<>>, "nil")

----------------------------------------------------------------------------
(* Attributes: slog.Attr with an already resolved slog.Value.              *)

Attr(key, kind, n, s, attrs, impl, ok) ==
    [key |-> key, kind |-> kind, n |-> n, s |-> s, attrs |-> attrs, impl |-> impl,
     ok |-> ok]

String(k, v) == Attr(k, "string", 0, v, <<>>, "", TRUE)
Bool(k, v) == Attr(k, "bool", IF v THEN 1 ELSE 0, <<>>, <<>>, "", TRUE)
Int64(k, n) == Attr(k, "int64", n, <<>>, <<>>, "", TRUE)
Group(k, attrs) == Attr(k, "group", 0, <<>>, attrs, "", TRUE)
AnyMarshaler(k, text, ok) == Attr(k, "any", 0, text, <<>>, "marshaler", ok)
AnyError(k, msg) == Attr(k, "any", 0, msg, <<>>, "error", TRUE)

RECURSIVE appendAttr(_, _, _)
RECURSIVE appendAttrs(_, _, _)

\* handler.appendAttr: returns the scratch and the error of the AppendAny hook
appendAttr(f, c, a) ==
    IF a.kind # "group" /\ a.key = <<>> THEN [c |-> c, err |-> "nil"]
    ELSE
    LET c1 == IF a.kind # "group" THEN AppendKey(f, c, a.key) ELSE c
    IN  CASE a.kind = "bool" ->
               [c |-> AppendScalar(f, c1, "AppendBool", strconvAppendBool(a.n = 1)),
                err |-> "nil"]
          [] a.kind = "int64" ->
               [c |-> AppendScalar(f, c1, "AppendInt64", strconvAppendInt(a.n)),
                err |-> "nil"]
          [] a.kind = "uint64" ->
               [c |-> AppendScalar(f, c1, "AppendUint64", strconvAppendUint(a.n)),
                err |-> "nil"]
          [] a.kind = "time" ->
               [c |-> AppendScalar(f, c1, "AppendTime",
                                   IF f = "journal" THEN UnixMicro(a.n) ELSE FormatTime(a.n)),
                err |-> "nil"]
          [] a.kind = "string" -> [c |-> AppendString(f, c1, a.s), err |-> "nil"]
          [] a.kind = "group" ->
               IF Len(a.attrs) # 0
               THEN LET c2 == IF a.key # <<>> THEN PushGroup(f, c1, a.key) ELSE c1
                        c3 == appendAttrs(f, c2, a.attrs)
                    IN  [c |-> IF a.key # <<>> THEN PopGroup(f, c3) ELSE c3, err |-> "nil"]
               ELSE [c |-> c1, err |-> "nil"]
          [] a.kind = "any" ->
               LET c2 == AppendAny(f, c1, a)
               IN  [c |-> c2, err |-> c2.tr[Len(c2.tr)].ret]

\* the loops over attributes in Handle, WithAttrs and appendAttr: each calls
\* appendAttr and drops what it returns
appendAttrs(f, c, as) ==
    IF as = <<>> THEN c
    ELSE appendAttrs(f, appendAttr(f, c, Head(as)).c, SubSeq(as, 2, Len(as)))

----------------------------------------------------------------------------
(* Handlers. A groups slice is a backing array, a length and (the length   *)
(* of the array) a capacity; array 0 is the nil slice.                     *)

NilSlice == [arr |-> 0, len |-> 0]

SliceElems(arrs, sl) == IF sl.arr = 0 THEN <<>> ELSE SubSeq(arrs[sl.arr], 1, sl.len)

SliceCap(arrs, sl) == IF sl.arr = 0 THEN 0 ELSE Len(arrs[sl.arr])

\* the capacity runtime.growslice picks for append of one string
GrowCap(old) == IF old = 0 THEN 1 ELSE 2 * old

\* append(sl, name): in place when capacity is left, else in a fresh, larger array
GoAppend(arrs, sl, name) ==
    IF sl.len < SliceCap(arrs, sl)
    THEN [arrays |-> [arrs EXCEPT ![sl.arr][sl.len + 1] = name],
          slice |-> [arr |-> sl.arr, len |-> sl.len + 1]]
    ELSE LET cap == GrowCap(SliceCap(arrs, sl))
             fresh == SliceElems(arrs, sl) \o <<name>>
                      \o [i \in 1..(cap - sl.len - 1) |-> <<>>]
         IN  [arrays |-> Append(arrs, fresh),
              slice |-> [arr |-> Len(arrs) + 1, len |-> sl.len + 1]]

NilBuffer == [nil |-> TRUE, data |-> <<>>]

\* buffer.Clone: a buffer of its own with the receiver's bytes (empty for nil)
Clone(buf) == [nil |-> FALSE, data |-> buf.data]

PprofKey(f) ==
    IF f = "journal" THEN <<"G", "O", "R", "O", "U", "T", "I", "N", "E">>
    ELSE <<"g", "o", "r", "o", "u", "t", "i", "n", "e">>

BaggageKey(f) ==
    IF f = "journal" THEN <<"B", "A", "G", "G", "A", "G", "E">>
    ELSE <<"b", "a", "g", "g", "a", "g", "e">>

\* a filter that accepts every key
BaggageFilterAll(o, key) == TRUE

\* Options.Baggage applied to a key
BaggageFilter(o, key) == o.Baggage = "all" \/ (o.Baggage = "k" /\ key = <<"k">>)

RECURSIVE AddBaggage(_, _, _, _, _)
\* the loop over bg.Members(); g tells whether the group was opened
AddBaggage(f, c, o, ms, g) ==
    IF ms = <<>> THEN (IF g THEN PopGroup(f, c) ELSE c)
    ELSE LET m == Head(ms)
             rest == SubSeq(ms, 2, Len(ms))
         IN  IF ~BaggageFilter(o, m.k) THEN AddBaggage(f, c, o, rest, g)
             ELSE LET c1 == IF ~g THEN PushGroup(f, c, BaggageKey(f)) ELSE c
                  IN  AddBaggage(f, AppendString(f, AppendKey(f, c1, m.k), m.v), o, rest,
                                 TRUE)

RECURSIVE AddLabelsLastFirst(_, _, _)
\* the loop over the labels run from the last label to the first
AddLabelsLastFirst(f, c, ls) ==
    IF ls = <<>> THEN c
    ELSE AddLabelsLastFirst(f, AppendString(f, AppendKey(f, c, ls[Len(ls)].k),
                                            ls[Len(ls)].v),
                            SubSeq(ls, 1, Len(ls) - 1))

RECURSIVE AddLabels(_, _, _)
AddLabels(f, c, ls) ==
    IF ls = <<>> THEN c
    ELSE AddLabels(f, AppendString(f, AppendKey(f, c, Head(ls).k), Head(ls).v),
                   SubSeq(ls, 2, Len(ls)))

\* Enabled with Options.Level, when set, put above the context's override
EnabledOptionsFirst(o, ctx, l) ==
    LET min0 == IF ctx.hasLevel THEN ctx.level ELSE LevelInfo
        min == IF o.hasLevel THEN o.Level ELSE min0
    IN  l >= min

\* Enabled with a strict comparison
EnabledAbove(o, ctx, l) ==
    LET min0 == IF o.hasLevel THEN o.Level ELSE LevelInfo
        min == IF ctx.hasLevel THEN ctx.level ELSE min0
    IN  l > min

\* handler.Enabled
Enabled(o, ctx, l) ==
    LET min0 == IF o.hasLevel THEN o.Level ELSE LevelInfo
        min == IF ctx.hasLevel THEN ctx.level ELSE min0
    IN  l >= min

\* Handle with the pre-formatted bytes written ahead of the labels
AssemblePrefmtFirst(f, gs, prefmt, o, ctx, r) ==
    LET c1 == WriteLevel(f, Start(f, Reset(f, gs)), r.level)
    IN  IF c1.panicked THEN c1
        ELSE
        LET c2 == IF ~o.OmitSource /\ r.pc # 0 THEN WriteSource(f, c1) ELSE c1
            c3 == IF ~o.OmitTime /\ r.time # 0 THEN WriteTime(f, c2, r.time) ELSE c2
            c4 == WriteMessage(f, c3, r.msg)
            c5 == IF o.Baggage # "nil" THEN AddBaggage(f, c4, o, ctx.baggage, FALSE) ELSE c4
            c6 == IF ~prefmt.nil THEN Ev(Write(c5, prefmt.data), "prefmt", <<>>, "nil")
                  ELSE c5
            c7 == IF Len(ctx.labels) # 0
                  THEN PopGroup(f, AddLabels(f, PushGroup(f, c6, PprofKey(f)), ctx.labels))
                  ELSE c6
        IN  End(f, appendAttrs(f, c7, r.attrs))

\* handler.Handle from the Start hook up to and including the End hook, on the
\* buffer and the state c0 holds: the record in the buffer
AssembleFrom(f, c0, prefmt, o, ctx, r) ==
    LET c1 == WriteLevel(f, Start(f, c0), r.level)
    IN  IF c1.panicked THEN c1
        ELSE
        LET c2 == IF ~o.OmitSource /\ r.pc # 0 THEN WriteSource(f, c1) ELSE c1
            c3 == IF ~o.OmitTime /\ r.time # 0 THEN WriteTime(f, c2, r.time) ELSE c2
            c4 == WriteMessage(f, c3, r.msg)
            c5 == IF o.Baggage # "nil" THEN AddBaggage(f, c4, o, ctx.baggage, FALSE) ELSE c4
            c6 == IF Len(ctx.labels) # 0
                  THEN PopGroup(f, AddLabels(f, PushGroup(f, c5, PprofKey(f)), ctx.labels))
                  ELSE c5
            c7 == IF ~prefmt.nil THEN Ev(Write(c6, prefmt.data), "prefmt", <<>>, "nil")
                  ELSE c6
        IN  End(f, appendAttrs(f, c7, r.attrs))

\* handler.Handle up to and including the End hook, on an empty buffer and the
\* state statePool.Get returns
Assemble(f, gs, prefmt, o, ctx, r) == AssembleFrom(f, Reset(f, gs), prefmt, o, ctx, r)

\* what the io.Writer answers to one Write of b: the count and the error
WriterResult(wres, b) ==
    CASE wres = "ok" -> [n |-> Len(b), err |-> "nil"]
      [] wres = "short" -> [n |-> Len(b) - 1, err |-> "nil"]
      [] OTHER -> [n |-> 0, err |-> "EIO"]

\* Handle taking the writer's count on trust
FinishNoShortWrite(o, b, w) ==
    [err |-> w.err,
     sink |-> IF w.err # "nil" /\ o.WriteError THEN <<w.err>> ELSE <<>>]

\* Handle reporting to the sink whatever the outcome
FinishSinkAlways(o, b, w) ==
    LET err == IF w.n # Len(b) /\ w.err = "nil" THEN "ErrShortWrite" ELSE w.err
    IN  [err |-> err, sink |-> IF o.WriteError THEN <<err>> ELSE <<>>]

\* handler.Handle after the Write: the error returned and the calls of the sink
Finish(o, b, w) ==
    LET err == IF w.n # Len(b) /\ w.err = "nil" THEN "ErrShortWrite" ELSE w.err
    IN  [err |-> err,
         sink |-> IF err # "nil" /\ o.WriteError THEN <<err>> ELSE <<>>]

\* WithAttrs wrapping the writer in a syncWriter of its own
WithAttrsOwnWriter(arrs, h, as) ==
    LET c0 == Reset(h.fmt, SliceElems(arrs, h.groups))
        c == appendAttrs(h.fmt, [c0 EXCEPT !.b = Clone(h.prefmt).data], as)
    IN  [out |-> h.out + 1, fmt |-> h.fmt, prefmt |-> [nil |-> FALSE, data |-> c.b],
         groups |-> h.groups]

\* handler.WithAttrs: the new handler
WithAttrs(arrs, h, as) ==
    LET c0 == Reset(h.fmt, SliceElems(arrs, h.groups))
        c == appendAttrs(h.fmt, [c0 EXCEPT !.b = Clone(h.prefmt).data], as)
    IN  [out |-> h.out, fmt |-> h.fmt, prefmt |-> [nil |-> FALSE, data |-> c.b],
         groups |-> h.groups]

\* handler.WithGroup: the new handler and the arrays after append(h.groups, name)
WithGroup(arrs, h, name) ==
    LET c0 == Reset(h.fmt, SliceElems(arrs, h.groups))
        c == PushGroup(h.fmt, [c0 EXCEPT !.b = Clone(h.prefmt).data], name)
        ap == GoAppend(arrs, h.groups, name)
    IN  [h |-> [out |-> h.out, fmt |-> h.fmt, prefmt |-> [nil |-> FALSE, data |-> c.b],
                groups |-> ap.slice],
         arrays |-> ap.arrays]

----------------------------------------------------------------------------
(* The inputs the environment may pass.                                    *)

ga == <<"a">>
gb == <<"b">>
gk == <<"k">>
gv == <<"v">>

GroupNames == {<<"g", "1">>}

\* attribute lists given to WithAttrs
AttrLists == {
    <<String(ga, gb)>>,
    <<Group(<<"x">>, <<String(ga, gb)>>)>> }

Record(level, pcv, time, attrs) ==
    [level |-> level, pc |-> pcv, time |-> time, msg |-> <<"m">>, attrs |-> attrs]

Records == {
    Record(LevelInfo, 1, 1, <<>>),
    Record(LevelInfo, 1, 1, <<String(<<"c">>, <<"d">>)>>),
    Record(LevelInfo, 0, 1, <<Group(<<"x">>, <<String(ga, gb)>>), String(gk, gv)>>),
    Record(LevelWarn, 1, 0, <<Group(<<"x">>, <<String(<<>>, gv)>>)>>),
    Record(LevelDebug, 0, 0, <<AnyMarshaler(<<"e">>, <<"1">>, FALSE), String(gk, gv)>>),
    Record(LevelError, 1, 1, <<Int64(<<"n">>, 5), Bool(<<"o">>, TRUE),
                               AnyMarshaler(<<"j">>, <<"1">>, TRUE)>>),
    Record(LevelInfo, 0, 0, <<String(<<>>, gv), Group(<<>>, <<String(ga, gb)>>),
                              AnyError(<<"e">>, <<"E">>)>>) }

Member(k, v) == [k |-> k, v |-> v]

Context(hasLevel, level, baggage, labels) ==
    [hasLevel |-> hasLevel, level |-> level, baggage |-> baggage, labels |-> labels]

Background == Context(FALSE, 0, <<>>, <<>>)

Contexts == {
    Background,
    Context(TRUE, LevelError, <<>>, <<>>),
    Context(TRUE, LevelDebug, <<Member(gk, gv)>>, <<>>),
    Context(FALSE, 0, <<Member(<<"q">>, <<"w">>), Member(gk, gv)>>, <<Member(<<"l">>, gv)>>) }

Levels == {LevelDebug, LevelInfo, LevelWarn, LevelError}

Options(hasLevel, level, baggage, writeError, omitSource, omitTime) ==
    [hasLevel |-> hasLevel, Level |-> level, Baggage |-> baggage,
     WriteError |-> writeError, OmitSource |-> omitSource, OmitTime |-> omitTime]

OptionSets == {
    Options(FALSE, 0, "nil", FALSE, FALSE, FALSE),
    Options(TRUE, LevelWarn, "all", TRUE, TRUE, TRUE),
    Options(FALSE, 0, "k", TRUE, FALSE, FALSE) }

Formats == {"json", "journal", "prose"}

\* what Handle is called with: any context and record on a writer that takes the
\* record, and two records on a writer that answers a short count or an error
HandleInputs ==
    {[ctx |-> x, r |-> r, wres |-> "ok"] : x \in Contexts, r \in Records}
    \cup {[ctx |-> Background, r |-> r, wres |-> w] :
            r \in {Record(LevelInfo, 1, 1, <<String(<<"c">>, <<"d">>)>>),
                   Record(LevelDebug, 0, 0, <<AnyMarshaler(<<"e">>, <<"1">>, FALSE),
                                              String(gk, gv)>>)},
            w \in {"short", "fail"}}

Goroutines == {1, 2}

\* the syncWriter objects: the handler field out names one of them
WriterIds == 1..MaxHandlers

NoBuffer == [hi |-> 0, b |-> <<>>]

\* what concurrent Handle calls are given
ConcInputs ==
    {[ctx |-> Background, r |-> r, wres |-> "ok"] :
        r \in {Record(LevelInfo, 1, 1, <<String(<<"c">>, <<"d">>)>>)}}

\* the environment of a process started outside the journal, Kubernetes and a terminal
\* os.LookupEnv: the variable's value and whether it is set
Unset == [ok |-> FALSE, v |-> <<>>]

SetTo(v) == [ok |-> TRUE, v |-> v]

\* unix.Stat_t of os.Stderr: the device and the inode
StderrStat == [Dev |-> 1, Ino |-> 2]

NoEnv ==
    [maxMsgSize |-> MaxMsgDefault, JOURNAL_STREAM |-> Unset, fstat |-> "nil",
     setupConn |-> "ok", KUBERNETES_SERVICE_HOST |-> Unset, k8sSecrets |-> "ErrNotExist",
     NO_COLOR |-> Unset, tty |-> FALSE]

NoRet == [op |-> "none"]

NoCall ==
    [op |-> "none", hi |-> 0, ctx |-> Background, r |-> Record(LevelInfo, 0, 0, <<>>),
     wres |-> "ok", out |-> <<>>, wrote |-> FALSE, en |-> FALSE, err |-> "nil",
     sink |-> <<>>, tr |-> <<>>, panicked |-> FALSE]

NoOrigin == [parent |-> 0, op |-> "NewHandler", as |-> <<>>, name |-> <<>>]

----------------------------------------------------------------------------
(* The state after NewHandler(w, opts): one base handler.                  *)

Init ==
    /\ \E f \in Formats :
          hs = <<[out |-> 1, fmt |-> f, prefmt |-> NilBuffer, groups |-> NilSlice]>>
    /\ origin = <<NoOrigin>>
    /\ arrays = <<>>
    /\ opts \in OptionSets
    /\ last = NoCall
    /\ pc = [g \in Goroutines |-> "idle"]
    /\ gbuf = [g \in Goroutines |-> NoBuffer]
    /\ mu = [w \in WriterIds |-> 0]
    /\ inner = {}
    /\ wlog = <<>>
    /\ env = NoEnv
    /\ res = NoRet

conc == <<pc, gbuf, mu, inner, wlog>>

proc == <<env, res>>

\* h.WithAttrs(as) on an existing handler
DoWithAttrs(hi, as) ==
    /\ last = NoCall
    /\ Len(hs) < MaxHandlers
    /\ hs' = Append(hs, WithAttrs(arrays, hs[hi], as))
    /\ origin' = Append(origin, [parent |-> hi, op |-> "WithAttrs", as |-> as,
                                 name |-> <<>>])
    /\ last' = [NoCall EXCEPT !.op = "WithAttrs", !.hi = hi]
    /\ UNCHANGED <<arrays, opts, conc, proc>>

\* h.WithGroup(name) on an existing handler
DoWithGroup(hi, name) ==
    /\ last = NoCall
    /\ Len(hs) < MaxHandlers
    /\ LET d == WithGroup(arrays, hs[hi], name)
       IN  /\ hs' = Append(hs, d.h)
           /\ arrays' = d.arrays
    /\ origin' = Append(origin, [parent |-> hi, op |-> "WithGroup", as |-> <<>>,
                                 name |-> name])
    /\ last' = [NoCall EXCEPT !.op = "WithGroup", !.hi = hi]
    /\ UNCHANGED <<opts, conc, proc>>

\* the outcome of h.Handle(ctx, r) when the writer answers wres
HandleResult(hi, ctx, r, wres, c) ==
    LET fin == Finish(opts, c.b, WriterResult(wres, c.b))
        wr == Ev(c, "Write", <<>>, fin.err)
    IN  IF c.panicked
        THEN [NoCall EXCEPT !.op = "Handle", !.hi = hi, !.ctx = ctx, !.r = r,
                            !.wres = wres, !.tr = c.tr, !.panicked = TRUE]
        ELSE [NoCall EXCEPT !.op = "Handle", !.hi = hi, !.ctx = ctx, !.r = r,
                            !.wres = wres, !.tr = wr.tr, !.out = c.b, !.wrote = TRUE,
                            !.err = fin.err, !.sink = fin.sink]

\* handler.Handle: the record assembled, written, and what the call leaves
HandleCall(hi, ctx, r, wres) ==
    HandleResult(hi, ctx, r, wres,
                 Assemble(hs[hi].fmt, SliceElems(arrays, hs[hi].groups), hs[hi].prefmt,
                          opts, ctx, r))

\* h.Handle(ctx, r), start to return
DoHandle(hi, in) ==
    /\ last = NoCall
    /\ last' = HandleCall(hi, in.ctx, in.r, in.wres)
    /\ UNCHANGED <<hs, origin, arrays, opts, conc, proc>>

\* h.Enabled(ctx, l)
DoEnabled(hi, ctx, l) ==
    /\ last = NoCall
    /\ last' = [NoCall EXCEPT !.op = "Enabled", !.hi = hi, !.ctx = ctx,
                              !.r = Record(l, 0, 0, <<>>), !.en = Enabled(opts, ctx, l)]
    /\ UNCHANGED <<hs, origin, arrays, opts, conc, proc>>

\* slog.Logger.Log on a logger over h: Handle is reached only when Enabled says so
DoLog(hi, ctx, r) ==
    /\ last = NoCall
    /\ last' = IF Enabled(opts, ctx, r.level)
               THEN [HandleCall(hi, ctx, r, "ok") EXCEPT !.op = "Log", !.en = TRUE]
               ELSE [NoCall EXCEPT !.op = "Log", !.hi = hi, !.ctx = ctx, !.r = r]
    /\ UNCHANGED <<hs, origin, arrays, opts, conc, proc>>

\* the caller takes the result of the call that completed; the next call may start
Return ==
    /\ last # NoCall
    /\ last' = NoCall
    /\ UNCHANGED <<hs, origin, arrays, opts, conc, proc>>

Next ==
    \/ \E hi \in 1..Len(hs), as \in AttrLists : DoWithAttrs(hi, as)
    \/ \E hi \in 1..Len(hs), name \in GroupNames : DoWithGroup(hi, name)
    \/ \E hi \in 1..Len(hs), in \in HandleInputs : DoHandle(hi, in)
    \/ \E hi \in 1..Len(hs), ctx \in Contexts, l \in Levels : DoEnabled(hi, ctx, l)
    \/ \E hi \in 1..Len(hs), ctx \in Contexts, r \in Records : DoLog(hi, ctx, r)
    \/ Return

Spec == Init /\ [][Next]_vars

----------------------------------------------------------------------------
(* Handle run by several goroutines: the record is assembled in the        *)
(* goroutine's own buffer, then passed to h.out.Write. For the JSON and    *)
(* prose handlers h.out is a syncWriter; the journal handler writes        *)
(* without one. The underlying writer takes the bytes of one Write in two  *)
(* chunks.                                                                 *)

Started == Len(wlog) + 2 * Cardinality({g \in Goroutines : pc[g] \in {"lock", "write"}})
           + Cardinality({g \in Goroutines : pc[g] = "writing"})

\* Handle, from its start to the call of h.out.Write
GoHandle(g, hi, in) ==
    /\ pc[g] = "idle"
    /\ Started < 2 * MaxWrites
    /\ LET h == hs[hi]
           c == Assemble(h.fmt, SliceElems(arrays, h.groups), h.prefmt, opts, in.ctx, in.r)
       IN  /\ ~c.panicked
           /\ gbuf' = [gbuf EXCEPT ![g] = [hi |-> hi, b |-> c.b]]
           /\ pc' = [pc EXCEPT ![g] = IF h.fmt = "journal" THEN "write" ELSE "lock"]
    /\ UNCHANGED <<proc, hs, origin, arrays, opts, last, mu, inner, wlog>>

\* syncWriter.Write: w.Lock()
Lock(g) ==
    /\ pc[g] = "lock"
    /\ mu[hs[gbuf[g].hi].out] = 0
    /\ mu' = [mu EXCEPT ![hs[gbuf[g].hi].out] = g]
    /\ pc' = [pc EXCEPT ![g] = "write"]
    /\ UNCHANGED <<proc, hs, origin, arrays, opts, last, gbuf, inner, wlog>>

\* the underlying Write starts: it has taken the first half of the bytes
WriteBegin(g) ==
    /\ pc[g] = "write"
    /\ inner' = inner \cup {g}
    /\ wlog' = Append(wlog, [g |-> g, rec |-> gbuf[g].b,
                             b |-> SubSeq(gbuf[g].b, 1, Len(gbuf[g].b) \div 2)])
    /\ pc' = [pc EXCEPT ![g] = "writing"]
    /\ UNCHANGED <<proc, hs, origin, arrays, opts, last, gbuf, mu>>

\* the underlying Write takes the rest and returns
WriteEnd(g) ==
    /\ pc[g] = "writing"
    /\ inner' = inner \ {g}
    /\ wlog' = Append(wlog, [g |-> g, rec |-> gbuf[g].b,
                             b |-> SubSeq(gbuf[g].b, (Len(gbuf[g].b) \div 2) + 1,
                                          Len(gbuf[g].b))])
    /\ pc' = [pc EXCEPT ![g] = IF hs[gbuf[g].hi].fmt = "journal" THEN "idle" ELSE "unlock"]
    /\ gbuf' = IF hs[gbuf[g].hi].fmt = "journal" THEN [gbuf EXCEPT ![g] = NoBuffer] ELSE gbuf
    /\ UNCHANGED <<proc, hs, origin, arrays, opts, last, mu>>

\* syncWriter.Write: the deferred w.Unlock(); Handle returns and releases its buffer
Unlock(g) ==
    /\ pc[g] = "unlock"
    /\ mu' = [mu EXCEPT ![hs[gbuf[g].hi].out] = 0]
    /\ pc' = [pc EXCEPT ![g] = "idle"]
    /\ gbuf' = [gbuf EXCEPT ![g] = NoBuffer]
    /\ UNCHANGED <<proc, hs, origin, arrays, opts, last, inner, wlog>>

InitConc ==
    /\ Init
    /\ opts = Options(FALSE, 0, "nil", FALSE, FALSE, FALSE)

NextConc ==
    \/ DoWithAttrs(Len(hs), <<String(ga, gb)>>)
    \/ DoWithGroup(Len(hs), <<"g", "1">>)
    \/ Return
    \/ \E g \in Goroutines, hi \in 1..Len(hs), in \in ConcInputs : GoHandle(g, hi, in)
    \/ \E g \in Goroutines : Lock(g)
    \/ \E g \in Goroutines : WriteBegin(g)
    \/ \E g \in Goroutines : WriteEnd(g)
    \/ \E g \in Goroutines : Unlock(g)

SpecConc == InitConc /\ [][NextConc]_vars

----------------------------------------------------------------------------
(* The journal transport: journalWriter.Write as the system calls it makes. *)
(* sc holds what the kernel answers: memfd (memfd_create), plan (one entry  *)
(* per write(2) on the memfd: "all" takes everything, "one" one byte, an    *)
(* errno fails the call, which then returns -1; past the plan every write   *)
(* takes everything), fcntl (F_ADD_SEALS) and send (sendmsg).               *)

memfdSeals == {"F_SEAL_SHRINK", "F_SEAL_GROW", "F_SEAL_WRITE", "F_SEAL_SEAL"}

Sys(call, data, oob, arg, err) ==
    [call |-> call, data |-> data, oob |-> oob, arg |-> arg, err |-> err]

RECURSIVE memfdWriteLoop(_, _, _)
\* for len(b) > 0 { n, err := unix.Write(fd, b); b = b[n:]; switch ... }
memfdWriteLoop(b, plan, tr) ==
    IF Len(b) = 0 THEN [tr |-> tr, err |-> "nil", panicked |-> FALSE]
    ELSE LET o == IF plan = <<>> THEN "all" ELSE Head(plan)
             n == CASE o = "all" -> Len(b)
                    [] o = "one" -> 1
                    [] OTHER -> 0 - 1
             err == IF o \in {"all", "one"} THEN "nil" ELSE o
             rest == IF plan = <<>> THEN <<>> ELSE SubSeq(plan, 2, Len(plan))
             tr1 == Append(tr, Sys("write", IF n < 0 THEN <<>> ELSE SubSeq(b, 1, n),
                                   "none", {}, err))
         IN  IF n < 0 \/ n > Len(b)
             THEN [tr |-> tr1, err |-> err, panicked |-> TRUE]
             ELSE IF err \in {"nil", "EINTR", "EAGAIN"}
             THEN memfdWriteLoop(SubSeq(b, n + 1, Len(b)), rest, tr1)
             ELSE [tr |-> tr1, err |-> err, panicked |-> FALSE]

\* journalConn.WriteMsgUnix(b, oob, journalAddr)
WriteMsgUnix(b, oob, send) ==
    [n |-> IF send = "ok" THEN Len(b) ELSE 0,
     err |-> IF send = "ok" THEN "nil" ELSE send,
     ev |-> Sys("sendmsg", b, oob, {}, IF send = "ok" THEN "nil" ELSE send)]

\* journalWriter.Write sealing the memfd before the record is in it
journalWriterWriteSealFirst(b, max, sc) ==
    IF Len(b) > max
    THEN IF sc.memfd # "ok"
         THEN [n |-> 0, err |-> "ErrMemfdCreate", panicked |-> FALSE,
               tr |-> <<Sys("memfd_create", <<>>, "none", {}, sc.memfd)>>]
         ELSE
         LET seal == Sys("fcntl", <<>>, "none", memfdSeals,
                        IF sc.fcntl = "ok" THEN "nil" ELSE sc.fcntl)
             w == memfdWriteLoop(b, sc.plan,
                                 <<Sys("memfd_create", <<>>, "none", {}, "nil"), seal>>)
             close == Sys("close", <<>>, "none", {}, "nil")
             m == WriteMsgUnix(<<>>, "fd", sc.send)
         IN  IF sc.fcntl # "ok"
             THEN [n |-> 0, err |-> "ErrSeal", panicked |-> FALSE,
                   tr |-> <<Sys("memfd_create", <<>>, "none", {}, "nil"), seal, close>>]
             ELSE IF w.panicked \/ w.err # "nil"
             THEN [n |-> 0, err |-> w.err, panicked |-> w.panicked,
                   tr |-> Append(w.tr, close)]
             ELSE [n |-> 0, err |-> m.err, panicked |-> FALSE,
                   tr |-> w.tr \o <<m.ev, close>>]
    ELSE LET m == WriteMsgUnix(b, "none", sc.send)
         IN  [n |-> m.n, err |-> m.err, panicked |-> FALSE, tr |-> <<m.ev>>]

\* journalWriter.Write: the count and error returned and the system calls made
journalWriterWrite(b, max, sc) ==
    IF Len(b) > max
    THEN IF sc.memfd # "ok"
         THEN [n |-> 0, err |-> "ErrMemfdCreate", panicked |-> FALSE,
               tr |-> <<Sys("memfd_create", <<>>, "none", {}, sc.memfd)>>]
         ELSE
         LET w == memfdWriteLoop(b, sc.plan,
                                 <<Sys("memfd_create", <<>>, "none", {}, "nil")>>)
             seal == Sys("fcntl", <<>>, "none", memfdSeals,
                        IF sc.fcntl = "ok" THEN "nil" ELSE sc.fcntl)
             close == Sys("close", <<>>, "none", {}, "nil")
             \* oob = unix.UnixRights(fd); b = b[:0]
             m == WriteMsgUnix(<<>>, "fd", sc.send)
         IN  IF w.panicked \/ w.err # "nil"
             THEN [n |-> 0, err |-> w.err, panicked |-> w.panicked,
                   tr |-> Append(w.tr, close)]
             ELSE IF sc.fcntl # "ok"
             THEN [n |-> 0, err |-> "ErrSeal", panicked |-> FALSE,
                   tr |-> w.tr \o <<seal, close>>]
             \* return len(b), err: b is the emptied slice
             ELSE [n |-> 0, err |-> m.err, panicked |-> FALSE,
                   tr |-> w.tr \o <<seal, m.ev, close>>]
    ELSE LET m == WriteMsgUnix(b, "none", sc.send)
         IN  [n |-> m.n, err |-> m.err, panicked |-> FALSE, tr |-> <<m.ev>>]

Syscalls ==
    [memfd : {"ok", "EMFILE"},
     plan : {<<>>, <<"one">>, <<"one", "one">>, <<"EINTR">>, <<"one", "EAGAIN">>,
             <<"one", "EIO">>},
     fcntl : {"ok", "EPERM"},
     send : {"ok", "ECONNREFUSED"}]

JournalRecords == {
    Record(LevelInfo, 0, 0, <<>>),
    Record(LevelInfo, 1, 1, <<>>),
    Record(LevelWarn, 0, 0, <<String(<<"c">>, <<"d">>)>>) }

\* Handle on the journal handler: the record goes to journalWriter.Write
JournalHandleResult(r, sc, c, w) ==
    LET fin == Finish(opts, c.b, [n |-> w.n, err |-> w.err])
    IN  [op |-> "Handle", r |-> r, sc |-> sc, b |-> c.b, w |-> w,
         panicked |-> w.panicked,
         err |-> IF w.panicked THEN "nil" ELSE fin.err,
         sink |-> IF w.panicked THEN <<>> ELSE fin.sink]

JournalHandleWritten(r, sc, c) ==
    JournalHandleResult(r, sc, c, journalWriterWrite(c.b, env.maxMsgSize, sc))

DoJournalHandle(r, sc) ==
    /\ res' = JournalHandleWritten(r, sc,
                  Assemble("journal", SliceElems(arrays, hs[1].groups), hs[1].prefmt,
                           opts, Background, r))
    /\ UNCHANGED <<hs, origin, arrays, opts, last, conc, env>>

\* the process runs under a journal stream and NewHandler(os.Stderr, opts) was called
InitJournal ==
    /\ hs = <<[out |-> 0, fmt |-> "journal", prefmt |-> NilBuffer, groups |-> NilSlice]>>
    /\ origin = <<NoOrigin>>
    /\ arrays = <<>>
    /\ opts \in OptionSets
    /\ last = NoCall
    /\ pc = [g \in Goroutines |-> "idle"]
    /\ gbuf = [g \in Goroutines |-> NoBuffer]
    /\ mu = [w \in WriterIds |-> 0]
    /\ inner = {}
    /\ wlog = <<>>
    /\ \E m \in {MaxMsgDefault, 4 * MaxMsgDefault} :
          env = [NoEnv EXCEPT !.JOURNAL_STREAM = SetTo(<<"1", ":", "2">>), !.maxMsgSize = m]
    /\ res = NoRet

NextJournal == \E r \in JournalRecords, sc \in Syscalls : DoJournalHandle(r, sc)

SpecJournal == InitJournal /\ [][NextJournal]_vars

----------------------------------------------------------------------------
(* The WriteLevel hook over the whole range of levels.                     *)

LevelRange == (0 - MaxLevel \div 2)..MaxLevel

\* what the new-handler specifications share: nothing derived, nothing called
Fresh ==
    /\ origin = <<NoOrigin>>
    /\ arrays = <<>>
    /\ last = NoCall
    /\ pc = [g \in Goroutines |-> "idle"]
    /\ gbuf = [g \in Goroutines |-> NoBuffer]
    /\ mu = [w \in WriterIds |-> 0]
    /\ inner = {}
    /\ wlog = <<>>
    /\ res = NoRet

InitLevel ==
    /\ \E f \in Formats :
          hs = <<[out |-> 1, fmt |-> f, prefmt |-> NilBuffer, groups |-> NilSlice]>>
    /\ opts = Options(FALSE, 0, "nil", FALSE, FALSE, FALSE)
    /\ env = NoEnv
    /\ Fresh

\* the call has returned to the caller, which may call again
Returned ==
    /\ res # NoRet
    /\ res' = NoRet
    /\ UNCHANGED <<hs, origin, arrays, opts, last, conc, env>>

\* h.fmt.WriteLevel(b, s, r.Level), first thing after Start in Handle
DoWriteLevel(l) ==
    /\ res = NoRet
    /\ res' = [op |-> "WriteLevel", l |-> l,
               c |-> WriteLevel(hs[1].fmt, Start(hs[1].fmt, Reset(hs[1].fmt, <<>>)), l)]
    /\ UNCHANGED <<hs, origin, arrays, opts, last, conc, env>>

NextLevel ==
    \/ \E l \in LevelRange : DoWriteLevel(l)
    \/ Returned

SpecLevel == InitLevel /\ [][NextLevel]_vars

----------------------------------------------------------------------------
(* Records whose message, key and string value hold any bytes, newline and *)
(* the record separator included.                                          *)

TextBytes == {"a", "\n", "x1e"}

Texts == UNION {[1..n -> TextBytes] : n \in 0..MaxText}

FrameHandleResult(m, k, v, c) ==
    [op |-> "Handle", msg |-> m, key |-> k, val |-> v,
     out |-> c.b, panicked |-> c.panicked]

\* Handle of a new handler on a record with message m and the attribute k=v
DoFrameHandle(m, k, v) ==
    /\ res = NoRet
    /\ res' = FrameHandleResult(m, k, v,
                  Assemble(hs[1].fmt, <<>>, hs[1].prefmt, opts, Background,
                           [level |-> LevelInfo, pc |-> 0, time |-> 0, msg |-> m,
                            attrs |-> <<String(k, v)>>]))
    /\ UNCHANGED <<hs, origin, arrays, opts, last, conc, env>>

NextFrame ==
    \/ \E m \in Texts, k \in Texts, v \in Texts : DoFrameHandle(m, k, v)
    \/ Returned

SpecFrame == InitLevel /\ [][NextFrame]_vars

----------------------------------------------------------------------------
(* NewHandler and what it reads of the process: JOURNAL_STREAM and the     *)
(* stat of stderr, the Kubernetes marks, NO_COLOR and the writer's kind.   *)

IsDigit(c) == \E i \in 1..10 : DigitChars[i] = c

DigitVal(c) == (CHOOSE i \in 1..10 : DigitChars[i] = c) - 1

\* the %d verb of fmt.Sscanf: the longest run of digits at the head of s
RECURSIVE ScanDigits(_, _, _)
ScanDigits(s, n, val) ==
    IF s # <<>> /\ IsDigit(Head(s))
    THEN ScanDigits(Tail(s), n + 1, 10 * val + DigitVal(Head(s)))
    ELSE [ok |-> n > 0, val |-> val, rest |-> s]

\* fmt.Sscanf(v, "%d:%d", &dev, &ino); what follows the second number is not read
Sscanf(v) ==
    LET a == ScanDigits(v, 0, 0)
        b == ScanDigits(Tail(a.rest), 0, 0)
    IN  IF ~a.ok THEN [n |-> 0, err |-> "EScan", dev |-> 0, ino |-> 0]
        ELSE IF a.rest = <<>> \/ Head(a.rest) # ":"
        THEN [n |-> 1, err |-> "EScan", dev |-> a.val, ino |-> 0]
        ELSE IF ~b.ok THEN [n |-> 1, err |-> "EScan", dev |-> a.val, ino |-> 0]
        ELSE [n |-> 2, err |-> "nil", dev |-> a.val, ino |-> b.val]

journalStream(e) ==
    IF ~e.JOURNAL_STREAM.ok THEN FALSE
    ELSE LET sc == Sscanf(e.JOURNAL_STREAM.v)
         IN  IF sc.n # 2 \/ sc.err # "nil" THEN FALSE
             ELSE IF e.fstat # "nil" THEN FALSE
             ELSE StderrStat.Ino = sc.ino /\ StderrStat.Dev = sc.dev

inK8s(e) == e.KUBERNETES_SERVICE_HOST.ok \/ e.k8sSecrets # "ErrNotExist"

\* the writers: os.Stderr, another *os.File, a bytes.Buffer
Writers == {"stderr", "file", "buffer"}

\* isatty: w is an *os.File and the terminal ioctl on it succeeds
isatty(e, w) == w \in {"stderr", "file"} /\ e.tty

\* the Options NewHandler is given: nil, or a pointer to v
NewOptions(omitTime, proseFormat, force) ==
    [hasLevel |-> FALSE, Level |-> 0, Baggage |-> "nil", WriteError |-> FALSE,
     OmitSource |-> FALSE, OmitTime |-> omitTime, ProseFormat |-> proseFormat,
     forceANSI |-> force]

NilOptions == [nil |-> TRUE, v |-> NewOptions(FALSE, FALSE, FALSE)]

OptionsGiven ==
    {NilOptions} \cup {[nil |-> FALSE, v |-> NewOptions(t, p, a)] : t, p, a \in BOOLEAN}

\* a handler NewHandler returns, or the panic of setupConn
Made(f, w, o, panicked) == [fmt |-> f, out |-> w, opts |-> o, panicked |-> panicked]

\* tryJournal
tryJournal(e, w, o) ==
    IF ~journalStream(e) THEN [ok |-> FALSE, h |-> Made("none", w, o, FALSE)]
    ELSE IF w # "stderr" THEN [ok |-> FALSE, h |-> Made("none", w, o, FALSE)]
    ELSE [ok |-> TRUE, h |-> Made("journal", "journalWriter", o, e.setupConn # "ok")]

\* proseHandler: the printer is populated or left nil
proseHandler(e, w, o) ==
    Made(IF o.forceANSI \/ (Len(e.NO_COLOR.v) # 0 /\ isatty(e, w)) THEN "ansi" ELSE "prose",
         w, o, FALSE)

\* NewHandler that looks at ProseFormat before the journal
NewHandlerProseFirst(e, w, og) ==
    LET o == IF og.nil
             THEN [og.v EXCEPT !.OmitTime = inK8s(e) \/ journalStream(e)]
             ELSE og.v
        j == tryJournal(e, w, o)
    IN  IF o.ProseFormat THEN proseHandler(e, w, o)
        ELSE IF j.ok THEN j.h
        ELSE Made("json", w, o, FALSE)

\* NewHandler that sets the default OmitTime also on supplied options
NewHandlerAlwaysDefault(e, w, og) ==
    LET o == [og.v EXCEPT !.OmitTime = inK8s(e) \/ journalStream(e)]
        j == tryJournal(e, w, o)
    IN  IF j.ok THEN j.h
        ELSE IF o.ProseFormat THEN proseHandler(e, w, o)
        ELSE Made("json", w, o, FALSE)

NewHandler(e, w, og) ==
    LET o == IF og.nil
             THEN [og.v EXCEPT !.OmitTime = inK8s(e) \/ journalStream(e)]
             ELSE og.v
        j == tryJournal(e, w, o)
    IN  IF j.ok THEN j.h
        ELSE IF o.ProseFormat THEN proseHandler(e, w, o)
        ELSE Made("json", w, o, FALSE)

JournalStreams ==
    {Unset, SetTo(<<>>), SetTo(<<"1", ":", "2">>), SetTo(<<"2", ":", "1">>),
     SetTo(<<"1">>), SetTo(<<"1", ":", "2", "x">>)}

Environments ==
    [maxMsgSize : {MaxMsgDefault},
     JOURNAL_STREAM : JournalStreams,
     fstat : {"nil", "EBADF"},
     setupConn : {"ok", "panic"},
     KUBERNETES_SERVICE_HOST : {Unset, SetTo(<<"h">>)},
     k8sSecrets : {"nil", "ErrNotExist", "EACCES"},
     NO_COLOR : {Unset, SetTo(<<>>), SetTo(<<"1">>)},
     tty : BOOLEAN]

InitNew ==
    /\ hs = <<>>
    /\ origin = <<>>
    /\ arrays = <<>>
    /\ opts = NilOptions.v
    /\ last = NoCall
    /\ pc = [g \in Goroutines |-> "idle"]
    /\ gbuf = [g \in Goroutines |-> NoBuffer]
    /\ mu = [w \in WriterIds |-> 0]
    /\ inner = {}
    /\ wlog = <<>>
    /\ env \in Environments
    /\ res = NoRet

NewHandlerResult(w, og, h) ==
    [op |-> "NewHandler", w |-> w, o |-> og, h |-> h, out |-> <<>>]

\* NewHandler(w, opts), once in the process's life
DoNewHandler(w, og) ==
    /\ hs = <<>>
    /\ res = NoRet
    /\ res' = NewHandlerResult(w, og, NewHandler(env, w, og))
    /\ hs' = IF res'.h.panicked THEN hs
             ELSE <<[out |-> 1, fmt |-> res'.h.fmt, prefmt |-> NilBuffer,
                     groups |-> NilSlice]>>
    /\ origin' = IF res'.h.panicked THEN origin ELSE <<NoOrigin>>
    /\ opts' = IF res'.h.panicked THEN opts ELSE res'.h.opts
    /\ UNCHANGED <<arrays, last, conc, env>>

NewRecords == {
    Record(LevelInfo, 1, 1, <<String(<<"c">>, <<"d">>)>>),
    Record(LevelError, 0, 0, <<Int64(<<"n">>, 5), Bool(<<"o">>, TRUE)>>) }

\* Handle on the handler NewHandler returned; what it was made from is kept
DoNewHandle(r) ==
    /\ res.op = "NewHandler"
    /\ ~res.h.panicked
    /\ res' = [res EXCEPT !.op = "Handle",
                          !.out = Assemble(hs[1].fmt, <<>>, hs[1].prefmt, opts,
                                           Background, r).b]
    /\ UNCHANGED <<hs, origin, arrays, opts, last, conc, env>>

NextNew ==
    \/ \E w \in Writers, og \in OptionsGiven : DoNewHandler(w, og)
    \/ \E r \in NewRecords : DoNewHandle(r)

SpecNew == InitNew /\ [][NextNew]_vars

----------------------------------------------------------------------------
(* Handle under every baggage, label set and baggage filter.               *)

\* the lists of at most MaxMembers members with distinct keys out of ks, the
\* value of key k being k followed by "v"
MemberLists(ks) ==
    {[i \in 1..Len(s) |-> Member(s[i], s[i] \o <<"v">>)] :
        s \in {t \in UNION {[1..n -> ks] : n \in 0..MaxMembers} :
                  \A i, j \in 1..Len(t) : i # j => t[i] # t[j]}}

\* baggage.FromContext(ctx).Members(), in the order this call returns them
Baggages == MemberLists({gk, <<"q">>, <<"r">>})

\* pprof.ForLabels(ctx, ...), in the iterator's order
LabelSets == MemberLists({ga, gb})

\* Options.Baggage: nil, accept all, accept the key k, accept nothing
Filters == {"nil", "all", "k", "none"}

CtxHandleResult(flt, ms, ls, c) ==
    [op |-> "Handle", filter |-> flt, baggage |-> ms, labels |-> ls,
     tr |-> [i \in 1..Len(c.tr) |-> [hook |-> c.tr[i].hook, arg |-> c.tr[i].arg]],
     out |-> c.b]

DoCtxHandle(flt, ms, ls) ==
    /\ res = NoRet
    /\ res' = CtxHandleResult(flt, ms, ls,
                  Assemble(hs[1].fmt, <<>>, hs[1].prefmt,
                           Options(FALSE, 0, flt, FALSE, TRUE, TRUE),
                           Context(FALSE, 0, ms, ls), Record(LevelInfo, 0, 0, <<>>)))
    /\ UNCHANGED <<hs, origin, arrays, opts, last, conc, env>>

NextCtx ==
    \/ \E flt \in Filters, ms \in Baggages, ls \in LabelSets : DoCtxHandle(flt, ms, ls)
    \/ Returned

SpecCtx == InitLevel /\ [][NextCtx]_vars

----------------------------------------------------------------------------
(* ContextWithValues and the escaping of baggage values. A baggage is the  *)
(* set of its members, one per key.                                        *)

\* the bytes the character class of needEscape lets through: the baggage-octets
AllowedValueByte(c) == c \notin {" ", "\"", ",", ";", "\\", "\n", "\r", "\t"} \cup ControlBytes

\* needEscape.MatchString(v), for values without a percent sign
needEscape(v) == \E i \in 1..Len(v) : ~AllowedValueByte(v[i])

\* the switch of escapeValue on one byte of a match of pctEncode
pctEncodeByte(c) ==
    CASE c = " " -> <<"%", "2", "0">>
      [] c = "\"" -> <<"%", "2", "2">>
      [] c = "," -> <<"%", "2", "C">>
      [] c = ";" -> <<"%", "3", "B">>
      [] c = "\\" -> <<"%", "5", "C">>
      [] OTHER -> <<c>>

RECURSIVE pctEncode(_)
pctEncode(v) == IF v = <<>> THEN <<>> ELSE pctEncodeByte(Head(v)) \o pctEncode(Tail(v))

\* escapeValue: the percent-encoding, then strconv.QuoteToASCII without its quotes
escapeValue(v) == QuoteBody(pctEncode(v))

\* url.PathUnescape on the sequences escapeValue writes
RECURSIVE PathUnescape(_)
PathUnescape(v) ==
    IF v = <<>> THEN <<>>
    ELSE IF Head(v) = "%" /\ Len(v) >= 3
    THEN LET h == SubSeq(v, 2, 3)
             c == CASE h = <<"2", "0">> -> " "
                    [] h = <<"2", "2">> -> "\""
                    [] h = <<"2", "C">> -> ","
                    [] h = <<"3", "B">> -> ";"
                    [] h = <<"5", "C">> -> "\\"
                    [] OTHER -> "%"
         IN  IF c = "%" THEN <<"%">> \o PathUnescape(Tail(v))
             ELSE <<c>> \o PathUnescape(SubSeq(v, 4, Len(v)))
    ELSE <<Head(v)>> \o PathUnescape(Tail(v))

\* baggage.NewMember: a key must be a non-empty token and a value made of
\* baggage-octets; decode tells whether this version of the package stores the
\* value decoded or as it was given
NewMember(k, v, decode) ==
    IF k = <<>> \/ needEscape(k) \/ needEscape(v)
    THEN [err |-> "EInvalid", m |-> Member(k, v)]
    ELSE [err |-> "nil", m |-> Member(k, IF decode THEN PathUnescape(v) ELSE v)]

\* Baggage.SetMember: the member replaces the one of the same key
SetMember(b, m) == {x \in b : x.k # m.k} \cup {m}

RECURSIVE ContextWithValuesLoop(_, _, _)
ContextWithValuesLoop(b, pairs, decode) ==
    IF pairs = <<>> THEN b
    ELSE LET k == pairs[1]
             v == IF needEscape(pairs[2]) THEN escapeValue(pairs[2]) ELSE pairs[2]
             m == NewMember(k, v, decode)
             rest == SubSeq(pairs, 3, Len(pairs))
         IN  IF m.err # "nil" THEN ContextWithValuesLoop(b, rest, decode)
             ELSE ContextWithValuesLoop(SetMember(b, m.m), rest, decode)

ContextWithValues(b, pairs, decode) ==
    ContextWithValuesLoop(b, SubSeq(pairs, 1, Len(pairs) - (Len(pairs) % 2)), decode)

\* the strings given as keys and values
PairTexts == {gk, <<"q">>, <<"a", " ", "b">>, <<"a", "\n">>}

PairLists == UNION {[1..n -> PairTexts] : n \in 0..(2 * MaxPairs + 1)}

\* the baggage the context already carries
BaggagesBefore == {{}, {Member(gk, gv)}, {Member(gk, gv), Member(<<"r">>, gv)}}

DoContextWithValues(b, pairs, decode) ==
    /\ res = NoRet
    /\ res' = [op |-> "ContextWithValues", before |-> b, pairs |-> pairs,
               after |-> ContextWithValues(b, pairs, decode)]
    /\ UNCHANGED <<hs, origin, arrays, opts, last, conc, env>>

NextValues ==
    \/ \E b \in BaggagesBefore, pairs \in PairLists, decode \in BOOLEAN :
          DoContextWithValues(b, pairs, decode)
    \/ Returned

SpecValues == InitLevel /\ [][NextValues]_vars

----------------------------------------------------------------------------
(* writeJSONString on bytes 0..255, with the decoding of UTF-8.            *)

\* safeSet with DEL taken out
safeSetBelowDel == (32..126) \ {34, 92}

\* safeSet: the entries of the table that are true
safeSet == (32..127) \ {34, 92}

\* hex, as bytes
hexBytes == <<48, 49, 50, 51, 52, 53, 54, 55, 56, 57, 97, 98, 99, 100, 101, 102>>

\* the second byte utf8 accepts after the lead byte c, and the size of the sequence
utf8First(c) ==
    CASE c \in 194..223 -> [size |-> 2, lo |-> 128, hi |-> 191]
      [] c = 224 -> [size |-> 3, lo |-> 160, hi |-> 191]
      [] c \in (225..236) \cup (238..239) -> [size |-> 3, lo |-> 128, hi |-> 191]
      [] c = 237 -> [size |-> 3, lo |-> 128, hi |-> 159]
      [] c = 240 -> [size |-> 4, lo |-> 144, hi |-> 191]
      [] c \in 241..243 -> [size |-> 4, lo |-> 128, hi |-> 191]
      [] c = 244 -> [size |-> 4, lo |-> 128, hi |-> 143]
      [] OTHER -> [size |-> 1, lo |-> 0, hi |-> 0]

\* utf8.DecodeRuneInString(s[i:]) for a first byte of 0x80 and above: whether the
\* rune is utf8.RuneError, and the size
DecodeRuneInString(s, i) ==
    LET x == utf8First(s[i])
    IN  IF x.size = 1 \/ i + x.size - 1 > Len(s) THEN [error |-> TRUE, size |-> 1]
        ELSE IF s[i + 1] < x.lo \/ s[i + 1] > x.hi THEN [error |-> TRUE, size |-> 1]
        ELSE IF \E j \in (i + 2)..(i + x.size - 1) : s[j] < 128 \/ s[j] > 191
        THEN [error |-> TRUE, size |-> 1]
        ELSE [error |-> SubSeq(s, i, i + x.size - 1) = <<239, 191, 189>>,
              size |-> x.size]

\* what follows the backslash for an unsafe byte below 0x80
jsonEscapeByte(c) ==
    CASE c \in {92, 34} -> <<c>>
      [] c = 10 -> <<110>>
      [] c = 13 -> <<114>>
      [] c = 9 -> <<116>>
      [] OTHER -> <<117, 48, 48, hexBytes[(c \div 16) + 1], hexBytes[(c % 16) + 1]>>

RECURSIVE writeJSONStringLoop(_, _, _, _)
\* the loop of writeJSONString: i and start count from 1, out is what was written
writeJSONStringLoop(s, i, start, out) ==
    IF i > Len(s) THEN out \o SubSeq(s, start, Len(s))
    ELSE IF s[i] < 128
    THEN IF s[i] \in safeSet THEN writeJSONStringLoop(s, i + 1, start, out)
         ELSE writeJSONStringLoop(s, i + 1, i + 1,
                  out \o SubSeq(s, start, i - 1) \o <<92>> \o jsonEscapeByte(s[i]))
    ELSE LET d == DecodeRuneInString(s, i)
         IN  IF d.error /\ d.size = 1
             THEN writeJSONStringLoop(s, i + 1, i + 1,
                      out \o SubSeq(s, start, i - 1) \o <<92, 117, 102, 102, 102, 100>>)
             ELSE writeJSONStringLoop(s, i + d.size, start, out)

writeJSONStringBytes(s) == writeJSONStringLoop(s, 1, 1, <<>>)

\* the bytes of the strings longer than one byte: a, continuation bytes, lead bytes
Utf8Bytes == {97, 128, 160, 194, 224, 237, 240, 244}

ByteStrings ==
    {<<c>> : c \in 0..255} \cup UNION {[1..n -> Utf8Bytes] : n \in 2..MaxBytes}

DoWriteJSONString(s) ==
    /\ res = NoRet
    /\ res' = [op |-> "writeJSONString", s |-> s, out |-> writeJSONStringBytes(s)]
    /\ UNCHANGED <<hs, origin, arrays, opts, last, conc, env>>

NextBytes ==
    \/ \E s \in ByteStrings : DoWriteJSONString(s)
    \/ Returned

InitBytes == InitLevel /\ hs[1].fmt = "json"

SpecBytes == InitBytes /\ [][NextBytes]_vars

----------------------------------------------------------------------------
(* Reading the written bytes back.                                         *)

\* the bytes of b that open or close a JSON string: quotes not escaped by a
\* backslash (a quote after an odd run of backslashes is escaped)
Quotes(b) ==
    {k \in 1..Len(b) :
        /\ b[k] = "\""
        /\ LET stop == {j \in 1..(k - 1) : b[j] # "\\"}
               from == IF stop = {} THEN 0 ELSE CHOOSE j \in stop : \A x \in stop : x <= j
           IN  (k - 1 - from) % 2 = 0}

\* the depth of open braces after each byte of b; braces inside a JSON string do
\* not count
BraceDepths(b) ==
    LET qs == Quotes(b)
        free == {j \in 1..Len(b) : Cardinality({k \in qs : k < j}) % 2 = 0}
        opens == {j \in free : b[j] = "{"}
        closes == {j \in free : b[j] = "}"}
    IN  [i \in 1..Len(b) |->
            Cardinality({j \in opens : j <= i}) - Cardinality({j \in closes : j <= i})]

\* b is one line holding one object: it opens with the brace of Start, every brace
\* opened is closed exactly once, and the last close is the byte before the newline
OneJSONObject(b) ==
    LET n == Len(b)
        ds == BraceDepths(b)
    IN  /\ n >= 3
        /\ b[1] = "{"
        /\ b[n] = "\n"
        /\ ds[n - 1] = 0
        /\ \A i \in 1..(n - 2) : ds[i] >= 1

HandledBy(f) ==
    /\ last.op = "Handle"
    /\ hs[last.hi].fmt = f
    /\ last.wrote

----------------------------------------------------------------------------
(* The claims.                                                             *)

\* C1: every record a JSON handler writes, whatever chain of WithAttrs / WithGroup
\* made the handler, is one well-formed JSON object: each brace opened by Start or
\* PushGroup is closed exactly once.
C1_JSONWellFormed == HandledBy("json") => OneJSONObject(last.out)

RECURSIVE DotJoin(_)
\* the names of a group stack joined with dots
DotJoin(gs) ==
    IF gs = <<>> THEN <<>>
    ELSE IF Len(gs) = 1 THEN gs[1]
    ELSE gs[1] \o <<".">> \o DotJoin(SubSeq(gs, 2, Len(gs)))

\* C2: in the journal and prose encoders the key prefix is, after every hook, the
\* dot-join of the names on the group stack (so a key written after a nested group
\* was popped carries the names of the groups still open).
C2_PrefixIsDotJoin ==
    (HandledBy("journal") \/ HandledBy("prose")) =>
        \A i \in 1..Len(last.tr) : last.tr[i].prefix = DotJoin(last.tr[i].groups)

\* C3: when the marshaler of an any-kind value fails during Handle, Handle returns
\* a non-nil error, hands it to Options.WriteError when that is set, and the buffer
\* is still written.
C3_MarshalErrorSurfaced ==
    (last.op = "Handle" /\ \E i \in 1..Len(last.tr) :
                              last.tr[i].hook = "AppendAny" /\ last.tr[i].ret # "nil") =>
        /\ last.wrote
        /\ last.err # "nil"
        /\ opts.WriteError => last.sink = <<last.err>>

\* the minimum level the claims describe: the context's override, else
\* Options.Level, else INFO
EffectiveMin(o, ctx) ==
    IF ctx.hasLevel THEN ctx.level ELSE IF o.hasLevel THEN o.Level ELSE LevelInfo

\* C4 as claimed: Handle writes bytes exactly when Enabled is true for the record's
\* level and the context.
C4_HandleWritesIffEnabled ==
    last.op = "Handle" =>
        (Enabled(opts, last.ctx, last.r.level) <=> (last.wrote /\ Len(last.out) > 0))

\* C4 amended: Handle itself checks no level and always hands the record to the
\* writer; a record logged through slog.Logger, which asks Enabled first, is
\* written exactly when its level is at least the effective minimum.
C4_LoggedIffEnabled ==
    /\ (last.op = "Handle" /\ ~last.panicked) => (last.wrote /\ Len(last.out) > 0)
    /\ last.op = "Log" =>
          ((last.wrote /\ Len(last.out) > 0)
              <=> last.r.level >= EffectiveMin(opts, last.ctx))

\* C4, the case: a record at INFO logged under a context override of ERROR is not
\* written
C4_Witness ==
    /\ last.op = "Log"
    /\ last.ctx.hasLevel /\ last.ctx.level = LevelError
    /\ last.r.level = LevelInfo
    /\ ~last.wrote

\* C5: Enabled(ctx, L) is L >= min, min being the context's override if there is
\* one, else Options.Level if set, else INFO; the override wins also when lower.
C5_EnabledLevel ==
    last.op = "Enabled" => (last.en <=> last.r.level >= EffectiveMin(opts, last.ctx))

\* C5, the case: an override below Options.Level enables a level Options.Level
\* would refuse
C5_Witness ==
    /\ last.op = "Enabled"
    /\ opts.hasLevel /\ last.ctx.hasLevel /\ last.ctx.level < opts.Level
    /\ last.r.level = last.ctx.level
    /\ last.en

\* C7: h.WithAttrs(X).Handle(R) writes the bytes h.Handle(R') writes, R' being R
\* with the attributes X put before its own.
C7_WithAttrsEquivalent ==
    (last.op = "Handle" /\ last.wrote /\ origin[last.hi].op = "WithAttrs") =>
        LET p == hs[origin[last.hi].parent]
            r2 == [last.r EXCEPT !.attrs = origin[last.hi].as \o @]
        IN  last.out = Assemble(p.fmt, SliceElems(arrays, p.groups), p.prefmt, opts,
                                last.ctx, r2).b

IsPrefix(p, s) == Len(p) <= Len(s) /\ SubSeq(s, 1, Len(p)) = p

\* the index in tr of the event that spliced in the pre-formatted bytes
PrefmtAt(tr) == CHOOSE i \in 1..Len(tr) : tr[i].hook = "prefmt"

\* C8: h.WithGroup(name).Handle(R) emits every attribute of R under name: in JSON
\* inside the objects of all the handler's groups, in journal and prose with the
\* dot-join of the handler's groups in front of the key.
C8_WithGroupNests ==
    (last.op = "Handle" /\ last.wrote /\ origin[last.hi].op = "WithGroup") =>
        LET h == hs[last.hi]
            gs == SliceElems(arrays, h.groups)
            ds == BraceDepths(last.out)
        IN  \A i \in 1..Len(last.tr) :
               (last.tr[i].hook = "AppendKey" /\ i > PrefmtAt(last.tr)) =>
                   IF h.fmt = "json" THEN ds[last.tr[i].at] >= 1 + Len(gs)
                   ELSE IsPrefix(DotJoin(gs), last.tr[i].prefix)

\* C9: no JSON record holds a group without members: no brace is opened and closed
\* at once.
C9_NoEmptyGroup ==
    HandledBy("json") =>
        LET ds == BraceDepths(last.out)
        IN  \A i \in 2..(Len(last.out) - 1) :
               ~(last.out[i] = "{" /\ ds[i] = ds[i - 1] + 1 /\ last.out[i + 1] = "}")

\* C6: on a JSON or prose handler and the handlers derived from it, at most one
\* Write of the underlying writer is in progress at any time, and the writer gets
\* each record whole: the two chunks of one Write follow each other.
C6_WritesSerialized ==
    hs[1].fmt # "journal" =>
        /\ Cardinality(inner) <= 1
        /\ \A i \in 1..Len(wlog) :
              IF i % 2 = 1
              THEN i < Len(wlog) =>
                      /\ wlog[i + 1].g = wlog[i].g
                      /\ wlog[i].b \o wlog[i + 1].b = wlog[i].rec
              ELSE wlog[i - 1].g = wlog[i].g

\* C6, the case: one goroutine is inside the underlying Write while another, which
\* called Handle on another handler of the family, waits for the mutex
C6_Witness ==
    /\ hs[1].fmt # "journal"
    /\ \E g1 \in Goroutines, g2 \in Goroutines :
          /\ pc[g1] = "writing"
          /\ pc[g2] = "lock"
          /\ gbuf[g1].hi # gbuf[g2].hi
          /\ origin[gbuf[g2].hi].op \in {"WithAttrs", "WithGroup"}
    /\ Len(wlog) = 1

RECURSIVE LeafKeys(_)
\* the keys of the attributes that carry a value, groups opened up, in order
LeafKeys(as) ==
    IF as = <<>> THEN <<>>
    ELSE LET a == Head(as)
         IN  (IF a.kind = "group" THEN LeafKeys(a.attrs)
              ELSE IF a.key = <<>> THEN <<>> ELSE <<a.key>>)
             \o LeafKeys(SubSeq(as, 2, Len(as)))

RECURSIVE KeyValueHooks(_)
KeyValueHooks(ms) ==
    IF ms = <<>> THEN <<>>
    ELSE <<[hook |-> "AppendKey", arg |-> Head(ms).k],
           [hook |-> "AppendString", arg |-> Head(ms).v]>>
         \o KeyValueHooks(SubSeq(ms, 2, Len(ms)))

GroupHooks(name, ms) ==
    IF ms = <<>> THEN <<>>
    ELSE <<[hook |-> "PushGroup", arg |-> name]>> \o KeyValueHooks(ms)
         \o <<[hook |-> "PopGroup", arg |-> <<>>]>>

Accepted(o, ms) == SelectSeq(ms, LAMBDA m : o.Baggage # "nil" /\ BaggageFilter(o, m.k))

\* the hooks of a Handle call up to the record's attributes
HeadHooks(f, prefmt, o, ctx, r) ==
    <<[hook |-> "Start", arg |-> <<>>], [hook |-> "WriteLevel", arg |-> <<>>]>>
    \o (IF ~o.OmitSource /\ r.pc # 0 THEN <<[hook |-> "WriteSource", arg |-> <<>>]>>
        ELSE <<>>)
    \o (IF ~o.OmitTime /\ r.time # 0 THEN <<[hook |-> "WriteTime", arg |-> <<>>]>>
        ELSE <<>>)
    \o <<[hook |-> "WriteMessage", arg |-> <<>>]>>
    \o GroupHooks(BaggageKey(f), Accepted(o, ctx.baggage))
    \o GroupHooks(PprofKey(f), ctx.labels)
    \o (IF ~prefmt.nil THEN <<[hook |-> "prefmt", arg |-> <<>>]>> ELSE <<>>)

AttrHooks == {"AppendKey", "AppendString", "AppendBool", "AppendInt64", "AppendUint64",
              "AppendFloat64", "AppendTime", "AppendDuration", "AppendAny", "PushGroup",
              "PopGroup"}

\* C10: a Handle call runs Start, WriteLevel, WriteSource iff wanted, WriteTime iff
\* wanted, WriteMessage, the accepted baggage, the labels, the pre-formatted bytes,
\* the record's attributes in order, End, and then writes to the writer once.
C10_HookOrder ==
    (last.op = "Handle" /\ last.wrote) =>
        LET h == hs[last.hi]
            tr == last.tr
            hd == HeadHooks(h.fmt, h.prefmt, opts, last.ctx, last.r)
            n == Len(tr)
            mid == SubSeq(tr, Len(hd) + 1, n - 2)
            keys == SelectSeq(mid, LAMBDA e : e.hook = "AppendKey")
        IN  /\ n >= Len(hd) + 2
            /\ \A i \in 1..Len(hd) : tr[i].hook = hd[i].hook /\ tr[i].arg = hd[i].arg
            /\ \A i \in 1..Len(mid) : mid[i].hook \in AttrHooks
            /\ [i \in 1..Len(keys) |-> keys[i].arg] = LeafKeys(last.r.attrs)
            /\ tr[n - 1].hook = "End"
            /\ tr[n].hook = "Write"
            /\ Cardinality({i \in 1..n : tr[i].hook = "Write"}) = 1

\* C10, the case: a derived handler handles a record with source, time, attributes,
\* labels and baggage of which the filter takes a part
C10_Witness ==
    /\ last.op = "Handle"
    /\ last.wrote
    /\ ~hs[last.hi].prefmt.nil
    /\ Accepted(opts, last.ctx.baggage) # <<>>
    /\ Len(Accepted(opts, last.ctx.baggage)) < Len(last.ctx.baggage)
    /\ last.ctx.labels # <<>>
    /\ ~opts.OmitSource /\ last.r.pc # 0
    /\ ~opts.OmitTime /\ last.r.time # 0
    /\ Len(LeafKeys(last.r.attrs)) >= 2

\* C11: when the writer takes fewer bytes than the record has and reports no error,
\* Handle returns io.ErrShortWrite and hands it to Options.WriteError when set.
C11_ShortWriteDetected ==
    (last.op = "Handle" /\ last.wrote /\ last.wres = "short") =>
        /\ last.err = "ErrShortWrite"
        /\ opts.WriteError => last.sink = <<"ErrShortWrite">>

\* C11, the case: a short write with the sink set
C11_Witness ==
    /\ last.op = "Handle"
    /\ last.wres = "short"
    /\ opts.WriteError
    /\ last.sink = <<"ErrShortWrite">>

\* C12: Handle returns the writer's error as it is; with Options.WriteError set, on
\* the base handler and on every derived one, the sink gets the returned error
\* exactly once when it is not nil and no call when it is nil.
C12_ErrorPropagated ==
    (last.op = "Handle" /\ last.wrote) =>
        /\ last.wres = "fail" => last.err = WriterResult("fail", last.out).err
        /\ last.wres = "ok" => last.err = "nil"
        /\ last.sink = IF opts.WriteError /\ last.err # "nil" THEN <<last.err>> ELSE <<>>

\* C12, the case: the writer fails under a derived handler and the sink is set
C12_Witness ==
    /\ last.op = "Handle"
    /\ last.wres = "fail"
    /\ origin[last.hi].op \in {"WithAttrs", "WithGroup"}
    /\ opts.WriteError
    /\ last.err = "EIO"
    /\ last.sink = <<"EIO">>

\* every system call of the journal write answered with success
AllSucceed(sc) ==
    /\ sc.memfd = "ok"
    /\ \A i \in 1..Len(sc.plan) : sc.plan[i] \in {"all", "one"}
    /\ sc.fcntl = "ok"
    /\ sc.send = "ok"

\* C13: a record longer than maxMsgSize, sent through the memfd with every system
\* call succeeding, makes journalWriter.Write return the record's length and nil,
\* and Handle return nil.
C13_MemfdReturnsLength ==
    (res.op = "Handle" /\ Len(res.b) > env.maxMsgSize /\ AllSucceed(res.sc)) =>
        /\ res.w.n = Len(res.b)
        /\ res.w.err = "nil"
        /\ res.err = "nil"

RECURSIVE Written(_, _)
\* the bytes the first n system calls wrote to the memfd
Written(tr, n) ==
    IF n = 0 THEN <<>>
    ELSE Written(tr, n - 1) \o (IF tr[n].call = "write" THEN tr[n].data ELSE <<>>)

\* C14: a record of at most maxMsgSize bytes goes out as one datagram holding the
\* record and no control data; a longer one is written to a memfd, which is sealed
\* SHRINK|GROW|WRITE|SEAL only once all the record is in it, and whose descriptor
\* is sent, after the sealing, as the control data of an empty datagram.
C14_DatagramOrSealedMemfd ==
    res.op = "Handle" =>
        LET tr == res.w.tr
        IN  IF Len(res.b) <= env.maxMsgSize
            THEN Len(tr) = 1 /\ tr[1].call = "sendmsg" /\ tr[1].data = res.b
                 /\ tr[1].oob = "none"
            ELSE /\ tr[1].call = "memfd_create"
                 /\ \A i \in 1..Len(tr) :
                       /\ tr[i].call = "fcntl" =>
                             /\ tr[i].arg = {"F_SEAL_SHRINK", "F_SEAL_GROW",
                                             "F_SEAL_WRITE", "F_SEAL_SEAL"}
                             /\ Written(tr, i) = res.b
                             /\ Written(tr, Len(tr)) = res.b
                       /\ tr[i].call = "sendmsg" =>
                             /\ tr[i].data = <<>>
                             /\ tr[i].oob = "fd"
                             /\ \E j \in 1..(i - 1) :
                                   tr[j].call = "fcntl" /\ tr[j].err = "nil"
                 /\ AllSucceed(res.sc) =>
                       \E i \in 1..Len(tr) : tr[i].call = "sendmsg"

\* C14, the case: a long record written to the memfd in several writes, sealed, sent
C14_Witness ==
    /\ res.op = "Handle"
    /\ Len(res.b) > env.maxMsgSize
    /\ res.sc.plan = <<"one", "one">>
    /\ AllSucceed(res.sc)
    /\ res.w.tr[Len(res.w.tr) - 1].call = "sendmsg"
    /\ res.w.tr[Len(res.w.tr) - 1].oob = "fd"

\* the priority digit the cascade of the claim gives
PriorityDigit(l) ==
    CASE l <= LevelDebug -> "7"
      [] l <= LevelInfo -> "6"
      [] l <= LevelInfo + 2 -> "5"
      [] l <= LevelWarn -> "4"
      [] l <= LevelError -> "3"
      [] l <= LevelError + 4 -> "2"
      [] l <= LevelError + 8 -> "1"
      [] OTHER -> "0"

\* C15: for every level, also above SyslogEmergency, the journal's PRIORITY field
\* holds the one digit '0'..'7' the cascade gives, '0' for everything above
\* ERROR+8.
C15_PriorityDigit ==
    (res.op = "WriteLevel" /\ hs[1].fmt = "journal") =>
        /\ res.c.b = <<"P", "R", "I", "O", "R", "I", "T", "Y", "=">>
                     \o <<PriorityDigit(res.l), "\n">>
        /\ res.c.b[10] \in {"0", "1", "2", "3", "4", "5", "6", "7"}

\* C16: for every level, also one whose name is longer than five characters, the
\* prose WriteLevel hook completes and writes the name, spaces up to a width of
\* five, and the unit separator.
C16_ProseLevelPadded ==
    (res.op = "WriteLevel" /\ hs[1].fmt = "prose") =>
        /\ ~res.c.panicked
        /\ res.c.b = LevelString(res.l) \o Repeat(" ", 5 - Len(LevelString(res.l)))
                     \o <<"x1f", " ">>

Newlines(b) == {i \in 1..Len(b) : b[i] = "\n"}

\* C17: whatever bytes the message, the key and the string value hold, the JSON
\* handler writes one line (the only newline is the last byte) and the prose
\* handler writes one line ending in U+001E and a newline, with no other newline.
C17_OneLine ==
    (res.op = "Handle" /\ ~res.panicked) =>
        /\ hs[1].fmt = "json" => Newlines(res.out) = {Len(res.out)}
        /\ hs[1].fmt = "prose" =>
              /\ Len(res.out) >= 2
              /\ res.out[Len(res.out) - 1] = "x1e"
              /\ Newlines(res.out) = {Len(res.out)}

\* the JSON half of C17 alone
C17_JSONOneLine ==
    (res.op = "Handle" /\ hs[1].fmt = "json") =>
        ~res.panicked /\ Newlines(res.out) = {Len(res.out)}

\* JOURNAL_STREAM holds the device and the inode of stderr, as device:inode
HoldsStderrPair ==
    LET t == strconvAppendUint(StderrStat.Dev) \o <<":">>
             \o strconvAppendUint(StderrStat.Ino)
        v == env.JOURNAL_STREAM.v
    IN  /\ env.JOURNAL_STREAM.ok
        /\ env.fstat = "nil"
        /\ Len(v) >= Len(t)
        /\ SubSeq(v, 1, Len(t)) = t
        /\ (Len(v) = Len(t) \/ ~IsDigit(v[Len(t) + 1]))

Escapes(b) == {i \in 1..Len(b) : b[i] = "x1b"}

\* C19: the prose handler styles its output only when the writer is a terminal
\* and NO_COLOR is unset: with NO_COLOR set and forceANSI off, no escape sequence
\* is written, whatever the writer.
C19_NoColorNoEscapes ==
    (res.op = "Handle" /\ IsProse(hs[1].fmt) /\ ~opts.forceANSI) =>
        /\ Len(env.NO_COLOR.v) # 0 => Escapes(res.out) = {}
        /\ Escapes(res.out) # {} => (isatty(env, res.w) /\ ~env.NO_COLOR.ok)

\* Kubernetes is detected: the service host is set, or the stat of the secrets
\* directory does not answer that it does not exist
KubernetesDetected ==
    env.KUBERNETES_SERVICE_HOST.ok \/ env.k8sSecrets # "ErrNotExist"

FilterAccepts(flt, key) ==
    CASE flt = "all" -> TRUE
      [] flt = "k" -> key = gk
      [] OTHER -> FALSE

\* the events of tr with hook hk and argument a
EventsOf(tr, hk, a) == {i \in 1..Len(tr) : tr[i].hook = hk /\ tr[i].arg = a}

\* C21: with a filter, the members the filter accepts are emitted, in the order of
\* the baggage's members, inside the baggage group, which is opened and closed iff
\* a member is accepted; with no filter nothing of the baggage is emitted.
C21_BaggageFiltered ==
    (res.op = "Handle" /\ "filter" \in DOMAIN res) =>
        LET f == hs[1].fmt
            acc == SelectSeq(res.baggage, LAMBDA m : FilterAccepts(res.filter, m.k))
            g == GroupHooks(BaggageKey(f), acc)
        IN  /\ Len(res.tr) >= 3 + Len(g)
            /\ res.tr[3].hook = "WriteMessage"
            /\ SubSeq(res.tr, 4, 3 + Len(g)) = g
            /\ Cardinality(EventsOf(res.tr, "PushGroup", BaggageKey(f)))
                 = IF acc = <<>> THEN 0 ELSE 1
            /\ \A i \in 1..Len(res.baggage) :
                  Cardinality(EventsOf(res.tr, "AppendKey", res.baggage[i].k))
                    = IF FilterAccepts(res.filter, res.baggage[i].k) THEN 1 ELSE 0

C21_Witness ==
    /\ res.op = "Handle"
    /\ "filter" \in DOMAIN res
    /\ res.filter = "k"
    /\ res.baggage = <<Member(<<"q">>, <<"q", "v">>), Member(gk, <<"k", "v">>)>>
    /\ EventsOf(res.tr, "AppendKey", gk) # {}

\* C22: the profiler-label group is emitted iff the context carries a label, and
\* its members are the labels in the iterator's order.
C22_LabelsInOrder ==
    (res.op = "Handle" /\ "labels" \in DOMAIN res) =>
        LET f == hs[1].fmt
            g == GroupHooks(PprofKey(f), res.labels)
            n == Len(res.tr)
        IN  /\ n >= 4 + Len(g)
            /\ res.tr[n].hook = "End"
            /\ SubSeq(res.tr, n - Len(g), n - 1) = g
            /\ Cardinality(EventsOf(res.tr, "PushGroup", PprofKey(f)))
                 = IF res.labels = <<>> THEN 0 ELSE 1

C22_Witness ==
    /\ res.op = "Handle"
    /\ "labels" \in DOMAIN res
    /\ Len(res.labels) = 2
    /\ res.baggage = <<>>
    /\ EventsOf(res.tr, "PushGroup", PprofKey(hs[1].fmt)) # {}

RECURSIVE SetPairs(_, _)
\* the baggage b with every key of the pairs set to the value paired with it
SetPairs(b, pairs) ==
    IF Len(pairs) < 2 THEN b
    ELSE SetPairs({x \in b : x.k # pairs[1]} \cup {Member(pairs[1], pairs[2])},
                  SubSeq(pairs, 3, Len(pairs)))

\* C24: ContextWithValues drops a trailing unpaired element, sets every given key
\* to the value paired with it, replacing the value of a key already in the
\* baggage, and leaves the other members as they were.
C24_ValuesSet ==
    res.op = "ContextWithValues" => res.after = SetPairs(res.before, res.pairs)

\* C24 for valid keys and values that need no escaping
C24_PlainValuesSet ==
    (/\ res.op = "ContextWithValues"
     /\ \A i \in 1..Len(res.pairs) : res.pairs[i] \in {gk, <<"q">>}) =>
        res.after = SetPairs(res.before, res.pairs)

\* a well-formed UTF-8 sequence of two to four bytes (Unicode, table 3-7)
WellFormedUtf8(q) ==
    LET cont(c) == c \in 128..191
    IN  \/ Len(q) = 2 /\ q[1] \in 194..223 /\ cont(q[2])
        \/ /\ Len(q) = 3
           /\ \/ q[1] = 224 /\ q[2] \in 160..191
              \/ q[1] \in (225..236) \cup (238..239) /\ cont(q[2])
              \/ q[1] = 237 /\ q[2] \in 128..159
           /\ cont(q[3])
        \/ /\ Len(q) = 4
           /\ \/ q[1] = 240 /\ q[2] \in 144..191
              \/ q[1] \in 241..243 /\ cont(q[2])
              \/ q[1] = 244 /\ q[2] \in 128..143
           /\ cont(q[3])
           /\ cont(q[4])

\* the byte at i belongs to a well-formed multi-byte sequence of s
InValidSequence(s, i) ==
    \E j \in 1..i, n \in 2..4 :
        j + n - 1 >= i /\ j + n - 1 <= Len(s) /\ WellFormedUtf8(SubSeq(s, j, j + n - 1))

\* what the claim has written for the byte at i
EscapedAs(s, i) ==
    LET c == s[i]
        hx == <<48, 49, 50, 51, 52, 53, 54, 55, 56, 57, 97, 98, 99, 100, 101, 102>>
    IN  CASE c = 9 -> <<92, 116>>
          [] c = 10 -> <<92, 110>>
          [] c = 13 -> <<92, 114>>
          [] c = 34 -> <<92, 34>>
          [] c = 92 -> <<92, 92>>
          [] c < 32 -> <<92, 117, 48, 48, hx[(c \div 16) + 1], hx[(c % 16) + 1]>>
          [] c < 128 -> <<c>>
          [] InValidSequence(s, i) -> <<c>>
          [] OTHER -> <<92, 117, 102, 102, 102, 100>>

RECURSIVE EscapedFrom(_, _)
EscapedFrom(s, i) == IF i > Len(s) THEN <<>> ELSE EscapedAs(s, i) \o EscapedFrom(s, i + 1)

\* C25: writeJSONString leaves a byte as it is iff it is printable ASCII other than
\* the quote and the backslash, or DEL, or part of a valid multi-byte sequence;
\* TAB, LF, CR, quote and backslash get their two-character escapes, the other
\* bytes below 0x20 become \u00XX and every invalid byte becomes the escape of U+FFFD.
C25_JSONEscaping ==
    res.op = "writeJSONString" => res.out = EscapedFrom(res.s, 1)

C25_Witness ==
    /\ res.op = "writeJSONString"
    /\ res.s = <<224, 194, 128, 128>>
    /\ res.out = <<92, 117, 102, 102, 102, 100, 194, 128, 92, 117, 102, 102, 102, 100>>

\* ---------------------------------------------------------------------------
\* journalWriter.Write: a write to the memfd that is interrupted

\* the write plan fails only with EINTR or EAGAIN, and does so at least once
OnlyInterrupted(sc) ==
    /\ sc.memfd = "ok" /\ sc.fcntl = "ok" /\ sc.send = "ok"
    /\ \A i \in 1..Len(sc.plan) : sc.plan[i] \in {"all", "one", "EINTR", "EAGAIN"}
    /\ \E i \in 1..Len(sc.plan) : sc.plan[i] \in {"EINTR", "EAGAIN"}

\* C27: a write to the memfd that fails with EINTR or EAGAIN is retried: the loop
\* goes on until all of the record is in the memfd, and Write neither panics nor
\* returns an error because of it.
C27_InterruptedWriteRetried ==
    (res.op = "Handle" /\ Len(res.b) > env.maxMsgSize /\ OnlyInterrupted(res.sc)) =>
        /\ ~res.w.panicked
        /\ res.w.err = "nil"
        /\ Written(res.w.tr, Len(res.w.tr)) = res.b

----------------------------------------------------------------------------
(* One attribute appended by the journal handler: every value kind, every  *)
(* case of the switch in formatterJournal.AppendAny.                       *)

AnyImpls == {"error", "marshaler", "binary", "stringer", "gostringer", "bytes", "other"}

ValueTexts == {
    <<>>, gv, <<"a", "\n", "b">>, <<"\n">>,
    <<"0", "1", "2", "3", "4", "5", "6", "7", "8", "9">> }

FieldAttrs ==
    {String(gk, t) : t \in ValueTexts}
    \cup {Attr(gk, "any", 0, t, <<>>, i, TRUE) : t \in ValueTexts, i \in AnyImpls}
    \cup {Int64(gk, 5), Bool(gk, TRUE), Attr(gk, "uint64", 7, <<>>, <<>>, "", TRUE),
          Attr(gk, "time", 1, <<>>, <<>>, "", TRUE)}

FieldGroups == {<<>>, <<ga>>, <<ga, gb>>}

\* h.appendAttr(b, s, a) on the state statePool.Get hands a journal handler
DoAppendAttr(gs, a) ==
    /\ res = NoRet
    /\ res' = [op |-> "appendAttr", gs |-> gs, a |-> a,
               b |-> appendAttr(hs[1].fmt, Reset(hs[1].fmt, gs), a).c.b]
    /\ UNCHANGED <<hs, origin, arrays, opts, last, conc, env>>

NextField ==
    \/ \E gs \in FieldGroups, a \in FieldAttrs : DoAppendAttr(gs, a)
    \/ Returned

InitField == InitLevel /\ hs[1].fmt = "journal"

SpecField == InitField /\ [][NextField]_vars

RECURSIVE JoinDots(_)
JoinDots(gs) ==
    IF gs = <<>> THEN <<>>
    ELSE IF Len(gs) = 1 THEN gs[1]
    ELSE gs[1] \o <<".">> \o JoinDots(SubSeq(gs, 2, Len(gs)))

\* the journal field name of the attribute: the open groups, then its key
FieldKey(gs, k) == IF gs = <<>> THEN k ELSE JoinDots(gs) \o <<".">> \o k

\* the value of the field, as text
FieldValue(a) ==
    CASE a.kind = "int64" -> strconvAppendInt(a.n)
      [] a.kind = "uint64" -> strconvAppendUint(a.n)
      [] a.kind = "bool" -> strconvAppendBool(a.n = 1)
      [] a.kind = "time" -> UnixMicro(a.n)
      [] OTHER -> a.s

\* C28: a field the journal encoder emits is KEY=value\n with no newline in the
\* value, or KEY\n, the 8-byte little-endian length of the value, the value and
\* \n; a value with a newline in it takes the second form. This for every kind of
\* value, the default case of AppendAny included.
C28_JournalFieldForm ==
    res.op = "appendAttr" =>
        LET k == FieldKey(res.gs, res.a.key)
            v == FieldValue(res.a)
        IN  \/ /\ res.b = k \o <<"=">> \o v \o <<"\n">>
               /\ \A i \in 1..Len(v) : v[i] # "\n"
            \/ res.b = k \o <<"\n">> \o LittleEndianBytes(Len(v), 8) \o v \o <<"\n">>

\* the same, without the default case of AppendAny
C28_TypedFieldForm ==
    (res.op = "appendAttr" /\ res.a.impl # "other") =>
        LET k == FieldKey(res.gs, res.a.key)
            v == FieldValue(res.a)
        IN  \/ /\ res.b = k \o <<"=">> \o v \o <<"\n">>
               /\ \A i \in 1..Len(v) : v[i] # "\n"
            \/ res.b = k \o <<"\n">> \o LittleEndianBytes(Len(v), 8) \o v \o <<"\n">>

----------------------------------------------------------------------------
(* setupConn: the per-process socket to journald. The environment gains    *)
(* the two files of /proc/sys/net/core, the once-guard, the number of runs *)
(* of the guarded function and the SO_SNDBUF values set on the socket.     *)

\* strconv.ParseInt(s, 10, 64) on numbers far from the range limit: an optional
\* sign, then digits and nothing else
ParseInt(s) ==
    LET signed == s # <<>> /\ Head(s) \in {"+", "-"}
        body == IF signed THEN Tail(s) ELSE s
        sc == ScanDigits(body, 0, 0)
    IN  IF body = <<>> \/ ~sc.ok \/ sc.rest # <<>>
        THEN [val |-> 0, err |-> "ErrSyntax"]
        ELSE [val |-> IF signed /\ Head(s) = "-" THEN 0 - sc.val ELSE sc.val,
              err |-> "nil"]

\* the results of the operating system calls of setupConn
SetupCalls ==
    [readDefault : {"ok", "EACCES"}, readMax : {"ok", "EACCES"},
     listen : {"ok", "EMFILE"}, sockopt : {"ok", "EPERM"}]

\* the function handed to sync.OnceFunc
setupConnBody(e, sys) ==
    IF sys.readDefault # "ok" THEN [e EXCEPT !.once = "panicked"]
    ELSE
    LET def == ParseInt(e.wmem_default)
        e1 == IF def.err = "nil" THEN [e EXCEPT !.maxMsgSize = def.val] ELSE e
    IN  IF sys.readMax # "ok" THEN [e1 EXCEPT !.once = "panicked"]
        ELSE
        LET max == ParseInt(e.wmem_max)
            e2 == IF max.err = "nil" THEN [e1 EXCEPT !.maxMsgSize = max.val] ELSE e1
        IN  IF sys.listen # "ok" THEN [e2 EXCEPT !.once = "panicked"]
            ELSE IF def.val = max.val THEN [e2 EXCEPT !.once = "done"]
            ELSE IF sys.sockopt # "ok" THEN [e2 EXCEPT !.once = "panicked"]
            ELSE [e2 EXCEPT !.once = "done", !.sndbuf = Append(@, max.val)]

\* setupConn(): sync.OnceFunc runs the function on the first call only, and
\* panics again on every later call when that run panicked
setupConn(e, sys) ==
    IF e.once = "idle" THEN setupConnBody([e EXCEPT !.runs = @ + 1], sys) ELSE e

\* the values the kernel may hold in wmem_default and wmem_max
WmemValues == {MaxMsgDefault - 8, MaxMsgDefault, MaxMsgDefault + 8}

\* a file of /proc/sys/net/core as os.ReadFile returns it: the kernel writes the
\* number and a newline; the bare number is what ParseInt accepts
ProcFile(v, newline) == strconvAppendInt(v) \o (IF newline THEN <<"\n">> ELSE <<>>)

SetupEnv(d, m) ==
    NoEnv @@ [once |-> "idle", runs |-> 0, wmem_default |-> d, wmem_max |-> m,
              sndbuf |-> <<>>]

\* tryJournal reaching setupConn()
DoSetupConn(sys) ==
    /\ res = NoRet
    /\ env' = setupConn(env, sys)
    /\ res' = [op |-> "setupConn", sys |-> sys, panicked |-> env'.once = "panicked"]
    /\ UNCHANGED <<hs, origin, arrays, opts, last, conc>>

NextSetup ==
    \/ \E sys \in SetupCalls : DoSetupConn(sys)
    \/ Returned

InitSetup ==
    /\ hs = <<[out |-> 1, fmt |-> "journal", prefmt |-> NilBuffer, groups |-> NilSlice]>>
    /\ opts = Options(FALSE, 0, "nil", FALSE, FALSE, FALSE)
    /\ \E d, m \in WmemValues, newline \in BOOLEAN :
          env = SetupEnv(ProcFile(d, newline), ProcFile(m, newline))
    /\ Fresh

SpecSetup == InitSetup /\ [][NextSetup]_vars

\* the decimal integer a file of /proc holds
Held(file) == ScanDigits(file, 0, 0).val

\* C29: the socket setup runs at most once, and once it is done maxMsgSize is the
\* number held by wmem_max and SO_SNDBUF has been set, to that number, iff
\* wmem_default and wmem_max hold different numbers.
C29_SetupOnceAndSized ==
    /\ env.runs <= 1
    /\ env.once = "done" =>
          /\ env.maxMsgSize = Held(env.wmem_max)
          /\ env.sndbuf = IF Held(env.wmem_default) # Held(env.wmem_max)
                           THEN <<Held(env.wmem_max)>> ELSE <<>>

\* the same for files that hold the digits and nothing after them
C29_BareNumbersSized ==
    /\ env.runs <= 1
    /\ (env.once = "done" /\ ParseInt(env.wmem_default).err = "nil"
                          /\ ParseInt(env.wmem_max).err = "nil") =>
          /\ env.maxMsgSize = Held(env.wmem_max)
          /\ env.sndbuf = IF Held(env.wmem_default) # Held(env.wmem_max)
                           THEN <<Held(env.wmem_max)>> ELSE <<>>

----------------------------------------------------------------------------
(* Handlers derived from handlers, deep enough for append(h.groups, name)  *)
(* to find capacity left in the parent's backing array.                    *)

NestNames == {<<"d">>, <<"e">>}

\* h.WithGroup(name) on an existing handler
DoNestWithGroup(hi, name) ==
    /\ res = NoRet
    /\ Len(hs) < MaxNest
    /\ LET d == WithGroup(arrays, hs[hi], name)
       IN  /\ hs' = Append(hs, d.h)
           /\ arrays' = d.arrays
    /\ origin' = Append(origin, [parent |-> hi, op |-> "WithGroup", as |-> <<>>,
                                 name |-> name])
    /\ res' = [op |-> "WithGroup", hi |-> hi]
    /\ UNCHANGED <<opts, last, conc, env>>

\* h.WithAttrs(as) on an existing handler
DoNestWithAttrs(hi, as) ==
    /\ res = NoRet
    /\ Len(hs) < MaxNest
    /\ hs' = Append(hs, WithAttrs(arrays, hs[hi], as))
    /\ origin' = Append(origin, [parent |-> hi, op |-> "WithAttrs", as |-> as,
                                 name |-> <<>>])
    /\ res' = [op |-> "WithAttrs", hi |-> hi]
    /\ UNCHANGED <<arrays, opts, last, conc, env>>

\* h.Handle(ctx, r) on an existing handler
DoNestHandle(hi, r) ==
    /\ res = NoRet
    /\ res' = [op |-> "Handle", hi |-> hi, out |-> HandleCall(hi, Background, r, "ok").out]
    /\ UNCHANGED <<hs, origin, arrays, opts, last, conc, env>>

NextNest ==
    \/ \E hi \in 1..Len(hs), name \in NestNames : DoNestWithGroup(hi, name)
    \/ \E hi \in 1..Len(hs) : DoNestWithAttrs(hi, <<String(ga, gb)>>)
    \/ \E hi \in 1..Len(hs) : DoNestHandle(hi, Record(LevelInfo, 0, 0, <<String(gk, gv)>>))
    \/ Returned

SpecNest == InitLevel /\ [][NextNest]_vars

\* the group stack of a handler
GroupStack(arrs, h) == SliceElems(arrs, h.groups)

\* a step leaves the group stack and the pre-formatted bytes of every handler
\* that exists as they are
HandlersKept ==
    \A i \in 1..Len(hs) :
        /\ i <= Len(hs')
        /\ GroupStack(arrays', hs'[i]) = GroupStack(arrays, hs[i])
        /\ hs'[i].prefmt = hs[i].prefmt

\* C26: no Handle, WithAttrs or WithGroup changes the group stack or the
\* pre-formatted bytes of a handler that exists already; so of two handlers derived
\* from one parent with WithGroup("d") and WithGroup("e"), each keeps its own name
\* on top of its group stack, however deep the parent is nested.
C26_HandlersImmutable == [][HandlersKept]_vars

\* the same for parents nested less than three groups deep
C26_ShallowImmutable ==
    [][(res'.op = "WithGroup" /\ hs[res'.hi].groups.len < 3) => HandlersKept]_vars

----------------------------------------------------------------------------
(* The pools. A buffer is an object on the heap: its bytes and the         *)
(* capacity of its array; bufPool holds the objects put back, the state    *)
(* pool the scratch states put back. A handler names its pre-formatted     *)
(* buffer, a journal or prose state its own copy of it (0 is nil).         *)

\* the goroutines that may be inside Handle while handlers are derived
Handling == {1}

\* the handlers of the process, the base handler included
PoolHandlers == MaxHandlers - 1

\* const maxSz = 16 << 10, in the scale of PoolNewCap
maxSz == 16 * PoolNewCap

\* the capacity append leaves a slice of capacity cap with, for need bytes
Grow(cap, need) ==
    IF need <= cap THEN cap ELSE IF need > 2 * cap THEN need ELSE 2 * cap

\* the choice sync.Pool.Get makes: 0 for nothing pooled (New is called), else an
\* object of the pool
CanPick(p, pick) ==
    IF pick = 0 THEN Len(p.heap) < MaxBufs ELSE pick \in p.bufPool

\* newBuffer: bufPool.Get()
newBuffer(p, pick) ==
    IF pick = 0
    THEN [p |-> [p EXCEPT !.heap = Append(@, [data |-> <<>>, cap |-> PoolNewCap])],
          id |-> Len(p.heap) + 1, reused |-> FALSE]
    ELSE [p |-> [p EXCEPT !.bufPool = @ \ {pick}], id |-> pick, reused |-> TRUE]

\* buffer.Release putting the buffer back as it is
bufferReleaseAsIs(p, id) ==
    IF id = 0 THEN p
    ELSE IF p.heap[id].cap <= maxSz THEN [p EXCEPT !.bufPool = @ \cup {id}]
    ELSE p

\* buffer.Release
bufferRelease(p, id) ==
    IF id = 0 THEN p
    ELSE IF p.heap[id].cap <= maxSz
    THEN [p EXCEPT !.heap[id].data = <<>>, !.bufPool = @ \cup {id}]
    ELSE p

\* buffer.Clone
bufferClone(p, id, pick) ==
    LET n == newBuffer(p, pick)
    IN  IF id = 0 THEN n
        ELSE LET b == p.heap[id]
                 out == n.p.heap[n.id]
                 o1 == IF b.cap > out.cap
                       THEN [data |-> [i \in 1..Len(b.data) |-> "x00"], cap |-> b.cap]
                       ELSE out
                 \* (*out)[:len(*b)], then copy(*out, *b)
                 o2 == [o1 EXCEPT !.data = b.data \o SubSeq(@, Len(b.data) + 1, Len(@))]
             IN  [p |-> [n.p EXCEPT !.heap[n.id] = o2], id |-> n.id, reused |-> n.reused]

\* a state the New of a statePool makes
NewState ==
    [jgroups |-> 0, wroteAttr |-> FALSE, groups |-> <<>>, prefix |-> <<>>, prefmt |-> 0]

\* Reset leaving in the state what the last record left there
stateResetKeeping(p, f, s, gs, prefmt, pick) ==
    IF f = "json"
    THEN [p |-> p, s |-> [s EXCEPT !.jgroups = Len(gs)]]
    ELSE LET cl == bufferClone(bufferRelease(p, s.prefmt), prefmt, pick)
         IN  [p |-> cl.p, s |-> pushGroups([s EXCEPT !.prefmt = cl.id], gs)]

\* stateJSON.Reset, stateJournal.Reset on a state that has been used; pick is the
\* choice of the Clone in stateJournal.Reset
stateReset(p, f, s, gs, prefmt, pick) ==
    IF f = "json"
    THEN [p |-> p, s |-> [s EXCEPT !.jgroups = Len(gs), !.wroteAttr = FALSE]]
    ELSE LET cl == bufferClone(bufferRelease(p, s.prefmt), prefmt, pick)
         IN  [p |-> cl.p,
              s |-> pushGroups([s EXCEPT !.groups = <<>>, !.prefix = <<>>,
                                         !.prefmt = cl.id], gs)]

\* statePool.Get(g, b): a pooled state or a new one, reset
statePoolGet(p, f, s, gs, prefmt, pick) ==
    stateReset([p EXCEPT !.spool = @ \ {s}], f, s, gs, prefmt, pick)

\* statePool.Put; a pool that is full drops the state
statePoolPut(p, s) ==
    [p EXCEPT !.spool = IF Cardinality(@) < MaxPooled THEN @ \cup {s} ELSE @]

RECURSIVE GrowThrough(_, _, _)
\* the capacity of a buffer after the appends of the hooks of tr, one hook at a time
GrowThrough(cap, tr, i) ==
    IF i > Len(tr) THEN cap ELSE GrowThrough(Grow(cap, tr[i].at), tr, i + 1)

\* the buffer and the state a formatter hook is handed
Scratch(s, data) ==
    [b |-> data, jgroups |-> s.jgroups, wroteAttr |-> s.wroteAttr, groups |-> s.groups,
     prefix |-> s.prefix, tr |-> <<>>, panicked |-> FALSE]

\* the state as the hooks left it
StateAfter(s, c) ==
    [s EXCEPT !.jgroups = c.jgroups, !.wroteAttr = c.wroteAttr, !.groups = c.groups,
              !.prefix = c.prefix]

\* the buffer as the hooks left it
Filled(p, id, c) ==
    [p EXCEPT !.heap[id] = [data |-> c.b, cap |-> GrowThrough(@.cap, c.tr, 1)]]

\* *h.prefmt as Handle reads it
PrefmtOf(p, id) == IF id = 0 THEN NilBuffer ELSE [nil |-> FALSE, data |-> p.heap[id].data]

NoRun == [hi |-> 0]

\* the process before the first call: nothing allocated, nothing pooled, the base
\* handler without pre-formatted bytes
PoolEnv ==
    NoEnv @@ [heap |-> <<>>, bufPool |-> {}, spool |-> {}, hp |-> <<0>>,
              run |-> [g \in Handling |-> NoRun], failed |-> 0]

\* the buffers a handler, a pooled state or a running Handle holds
InUse(e) ==
    ({e.hp[i] : i \in 1..Len(e.hp)}
     \cup {s.prefmt : s \in e.spool}
     \cup {e.run[g].b : g \in {x \in Handling : e.run[x] # NoRun}}
     \cup {e.run[g].s.prefmt : g \in {x \in Handling : e.run[x] # NoRun}}) \ {0}

\* a buffer nothing refers to any more: what it holds is never read again
Garbage == [data |-> <<>>, cap |-> 0]

\* the heap with the buffers cleared that neither the pool nor a holder refers to
Collect(e) ==
    [e EXCEPT !.heap = [i \in DOMAIN @ |->
                           IF i \in e.bufPool \cup InUse(e) THEN @[i] ELSE Garbage]]

\* the choice the Clone of stateJournal.Reset has; stateJSON.Reset rents nothing
CanPickReset(p, f, s, pick) ==
    IF f = "json" THEN pick = 0 ELSE CanPick(bufferRelease(p, s.prefmt), pick)

\* Handle with b rented, s reset and the record assembled, about to call h.out.Write
Rented(g, hi, r, n, st, c, reusedS) ==
    Collect([Filled(st.p, n.id, c) EXCEPT
        !.run[g] = [hi |-> hi, r |-> r, b |-> n.id, s |-> StateAfter(st.s, c),
                    rentedLen |-> Len(st.p.heap[n.id].data), reusedB |-> n.reused,
                    reusedS |-> reusedS]])

RentAssemble(g, hi, r, n, st, reusedS) ==
    Rented(g, hi, r, n, st,
           AssembleFrom(hs[hi].fmt, Scratch(st.s, st.p.heap[n.id].data),
                        PrefmtOf(st.p, st.p.hp[hi]), opts, Background, r),
           reusedS)

RentState(g, hi, r, n, s, pick) ==
    RentAssemble(g, hi, r, n,
                 statePoolGet(n.p, hs[hi].fmt, s, SliceElems(arrays, hs[hi].groups),
                              n.p.hp[hi], pick),
                 s \in n.p.spool)

\* Handle: b := newBuffer(); s := h.pool.Get(h.groups, h.prefmt); the hooks
DoRentHandle(g, hi, r, pickB, s, pickC) ==
    /\ res = NoRet
    /\ env.run[g] = NoRun
    /\ CanPick(env, pickB)
    /\ CanPickReset(newBuffer(env, pickB).p, hs[hi].fmt, s, pickC)
    /\ env' = RentState(g, hi, r, newBuffer(env, pickB), s, pickC)
    /\ UNCHANGED <<hs, origin, arrays, opts, last, conc, res>>

\* what Handle leaves when it returns: the deferred h.pool.Put(s), then b.Release()
Returning(g, e, failed) ==
    Collect([bufferRelease(statePoolPut(e, e.run[g].s), e.run[g].b) EXCEPT
        !.run[g] = NoRun,
        !.failed = IF failed THEN e.run[g].hi ELSE @])

\* Handle: n, err = h.out.Write(*b), and the return
DoReturnHandle(g, wres) ==
    /\ env.run[g] # NoRun
    /\ res = NoRet
    /\ res' = [op |-> "Handle", hi |-> env.run[g].hi, r |-> env.run[g].r, wres |-> wres,
               given |-> env.heap[env.run[g].b].data,
               err |-> Finish(opts, env.heap[env.run[g].b].data,
                              WriterResult(wres, env.heap[env.run[g].b].data)).err,
               rentedLen |-> env.run[g].rentedLen, reusedB |-> env.run[g].reusedB,
               reusedS |-> env.run[g].reusedS,
               failedBefore |-> env.failed]
    /\ env' = Returning(g, env, wres # "ok")
    /\ UNCHANGED <<hs, origin, arrays, opts, last, conc>>

\* WithAttrs, WithGroup: the new handler's buffer filled, the state put back
Derived(cl, st, c) ==
    Collect([statePoolPut(Filled(st.p, cl.id, c), StateAfter(st.s, c)) EXCEPT
        !.hp = Append(@, cl.id)])

DerivedWithAttrs(hi, as, cl, st) ==
    Derived(cl, st, appendAttrs(hs[hi].fmt, Scratch(st.s, st.p.heap[cl.id].data), as))

\* h.WithAttrs(as): p := h.prefmt.Clone(); s := h.pool.Get(h.groups, h.prefmt)
DoPoolWithAttrs(hi, as, pickP, s, pickC) ==
    /\ res = NoRet
    /\ Len(hs) < PoolHandlers
    /\ CanPick(env, pickP)
    /\ CanPickReset(bufferClone(env, env.hp[hi], pickP).p, hs[hi].fmt, s, pickC)
    /\ env' = DerivedWithAttrs(hi, as, bufferClone(env, env.hp[hi], pickP),
                               statePoolGet(bufferClone(env, env.hp[hi], pickP).p,
                                            hs[hi].fmt, s,
                                            SliceElems(arrays, hs[hi].groups),
                                            env.hp[hi], pickC))
    /\ hs' = Append(hs, WithAttrs(arrays, hs[hi], as))
    /\ origin' = Append(origin, [parent |-> hi, op |-> "WithAttrs", as |-> as,
                                 name |-> <<>>])
    /\ res' = [op |-> "WithAttrs", hi |-> hi]
    /\ UNCHANGED <<arrays, opts, last, conc>>

DerivedWithGroup(hi, name, cl, st) ==
    Derived(cl, st, PushGroup(hs[hi].fmt, Scratch(st.s, st.p.heap[cl.id].data), name))

\* h.WithGroup(name): p := h.prefmt.Clone(); s := h.pool.Get(h.groups, nil)
DoPoolWithGroup(hi, name, pickP, s, pickC) ==
    /\ res = NoRet
    /\ Len(hs) < PoolHandlers
    /\ CanPick(env, pickP)
    /\ CanPickReset(bufferClone(env, env.hp[hi], pickP).p, hs[hi].fmt, s, pickC)
    /\ env' = DerivedWithGroup(hi, name, bufferClone(env, env.hp[hi], pickP),
                               statePoolGet(bufferClone(env, env.hp[hi], pickP).p,
                                            hs[hi].fmt, s,
                                            SliceElems(arrays, hs[hi].groups), 0, pickC))
    /\ LET d == WithGroup(arrays, hs[hi], name)
       IN  /\ hs' = Append(hs, d.h)
           /\ arrays' = d.arrays
    /\ origin' = Append(origin, [parent |-> hi, op |-> "WithGroup", as |-> <<>>,
                                 name |-> name])
    /\ res' = [op |-> "WithGroup", hi |-> hi]
    /\ UNCHANGED <<opts, last, conc>>

\* a record that fits a buffer the pool takes back, and one that outgrows it
PoolRecords == {
    Record(LevelInfo, 0, 0, <<>>),
    Record(LevelInfo, 0, 0, <<String(gk, gv)>>) }

WriterResults == {"ok", "short", "err"}

NextPool ==
    \/ \E g \in Handling, hi \in 1..Len(hs), r \in PoolRecords, pickB \in 0..MaxBufs,
          s \in env.spool \cup {NewState}, pickC \in 0..MaxBufs :
          DoRentHandle(g, hi, r, pickB, s, pickC)
    \/ \E g \in Handling, wres \in WriterResults : DoReturnHandle(g, wres)
    \/ \E hi \in 1..Len(hs), pickP \in 0..MaxBufs, s \in env.spool \cup {NewState},
          pickC \in 0..MaxBufs : DoPoolWithAttrs(hi, <<String(ga, gb)>>, pickP, s, pickC)
    \/ \E hi \in 1..Len(hs), name \in GroupNames, pickP \in 0..MaxBufs,
          s \in env.spool \cup {NewState}, pickC \in 0..MaxBufs :
          DoPoolWithGroup(hi, name, pickP, s, pickC)
    \/ Returned

InitPool ==
    /\ \E f \in Formats :
          hs = <<[out |-> 1, fmt |-> f, prefmt |-> NilBuffer, groups |-> NilSlice]>>
    /\ opts = Options(FALSE, 0, "nil", FALSE, FALSE, FALSE)
    /\ env = PoolEnv
    /\ Fresh

SpecPool == InitPool /\ [][NextPool]_vars

RECURSIVE DerivedFrom(_, _)
\* handler i is handler a, or derived from it in one or more steps
DerivedFrom(i, a) == i # 0 /\ a # 0 /\ (i = a \/ DerivedFrom(origin[i].parent, a))

\* C23: after a Handle whose writer returned an error or a short count, a later
\* Handle on the same handler, or on one derived from it, hands the writer
\* exactly the bytes of its record: the rented buffer and the rented state carry
\* nothing of an earlier record.
C23_FailedRecordLeavesNothing ==
    (res.op = "Handle" /\ DerivedFrom(res.hi, res.failedBefore)) =>
        res.given = Assemble(hs[res.hi].fmt, SliceElems(arrays, hs[res.hi].groups),
                             hs[res.hi].prefmt, opts, Background, res.r).b

C23_Witness ==
    /\ res.op = "Handle"
    /\ res.hi > 1
    /\ res.failedBefore = 1
    /\ res.reusedB
    /\ res.reusedS
    /\ res.wres = "ok"

\* C30: every buffer bufPool holds has length 0 and a capacity of at most maxSz, a
\* buffer Handle rents is empty, and no buffer in the pool is held by a handler, a
\* scratch state or a running Handle.
C30_PooledBuffersEmptyAndFree ==
    /\ \A id \in env.bufPool :
          Len(env.heap[id].data) = 0 /\ env.heap[id].cap <= maxSz
    /\ \A g \in Handling : env.run[g] # NoRun => env.run[g].rentedLen = 0
    /\ env.bufPool \cap InUse(env) = {}

C30_Witness ==
    /\ \E id \in env.bufPool : env.heap[id].cap > PoolNewCap
    /\ \E g \in Handling :
          env.run[g] # NoRun /\ env.run[g].reusedB /\ env.heap[env.run[g].b].cap > maxSz
    /\ \E i \in 1..Len(env.hp) : env.hp[i] # 0

====
